---- MODULE Spec2Model ----
(***************************************************************************)
(* RustBoy: a Game Boy emulator core (CPU interpreter, memory bus, GPU     *)
(* mode machine).  The module models the CPU struct (registers, memory,    *)
(* GPU) and the operations of src/src/{registers,memory,gpu,cpu,           *)
(* cartridge}.rs as operators over records, and drives them from several   *)
(* specifications:                                                         *)
(*   Spec      main(): initialize(rom) then cpu_cycle() repeatedly         *)
(*   SpecExec  boot state, an instruction at PC stepped, or a reset       *)
(*   SpecGpu   Memory::gpu_cycle driven by cumulative tick counts          *)
(*   SpecMem   Memory::write_byte / read_byte calls on a fresh bus         *)
(*   SpecAlu   the ALU handlers applied once to drawn operands             *)
(*   SpecInt   main() on programs that enable and request interrupts       *)
(*   SpecPair  two instructions stepped one after the other                *)
(*   SpecOps   every opcode stepped once from the boot state               *)
(*   SpecArith arithmetic, rotate and BCD instructions on drawn operands   *)
(*   SpecRender GPU::render_scanline on drawn VRAM and scroll registers    *)
(*   SpecIrq   one cycle, bus write, GPU tick or service on drawn IME/IE/IF*)
(*   SpecLoad  load_rom on drawn files                                     *)
(*   SpecLive  main() for ever, under fairness of the cycle                *)
(* Arrays are zero-initialised in the source; they are kept here as        *)
(* sparse functions holding only their non-zero entries.                   *)
(***************************************************************************)
EXTENDS Integers, Sequences, FiniteSets, TLC

VARIABLES
    cpu,              \* the CPU struct: register, memory (with gpu), ticks, stopped, halted
    overflow_checks,  \* build profile: TRUE = arithmetic overflow panics, FALSE = wraps
    last,             \* the last call made by the driver, with the state before it
    steps             \* number of driver calls made so far; in SpecGpu the ticks
                      \* of the mode periods the GPU has completed

vars == <<cpu, overflow_checks, last, steps>>

----------------------------------------------------------------------------
(* Fixed-width integers and bit operations                                 *)

Byte == 0..255

RECURSIVE BitAnd(_, _)
BitAnd(a, b) ==
    IF a = 0 \/ b = 0 THEN 0
    ELSE (a % 2) * (b % 2) + 2 * BitAnd(a \div 2, b \div 2)

RECURSIVE BitOr(_, _)
BitOr(a, b) ==
    IF a = 0 THEN b
    ELSE IF b = 0 THEN a
    ELSE (IF (a % 2) + (b % 2) > 0 THEN 1 ELSE 0) + 2 * BitOr(a \div 2, b \div 2)

RECURSIVE BitXor(_, _)
BitXor(a, b) ==
    IF a = 0 THEN b
    ELSE IF b = 0 THEN a
    ELSE (((a % 2) + (b % 2)) % 2) + 2 * BitXor(a \div 2, b \div 2)

\* !x on u8
Not8(x) == 255 - x

\* x << n and x >> n on u8
Shl8(x, n) == (x * (2 ^ n)) % 256
Shr(x, n) == x \div (2 ^ n)

\* bit k of x
BitOf(x, k) == (x \div (2 ^ k)) % 2

\* `as i8`: the signed reading of a byte
AsI8(x) == IF x >= 128 THEN x - 256 ELSE x

\* truncation to u16 (`as u16`, wrapping_add / wrapping_sub on u16)
Wrap16(x) == x % 65536
Wrap8(x) == x % 256

\* u32 (CPU::ticks, GPU::gpu_ticks, GPU::prev_ticks).  The integers of the
\* model checker are 32 bits wide and signed, so a u32 is kept as the
\* integer with the same 32 bits: a value below 2^31 as itself, a value v
\* from 2^31 on as v - 2^32 (4294967260 is kept as -36).

\* a < b on u32
u32_lt(a, b) == IF (a < 0) = (b < 0) THEN a < b ELSE b < 0

\* a + b on u32 passes 2^32 - 1: the overflow of `+=`
u32_carry(a, b) ==
    IF a < 0 /\ b < 0 THEN TRUE
    ELSE IF a >= 0 /\ b >= 0 THEN FALSE
    ELSE a + b >= 0

\* a + b on u32, wrapping
u32_add(a, b) ==
    IF a >= 0 /\ b >= 0 /\ a > 2147483647 - b
    THEN (a - 2147483647 - 1) + (b - 2147483647 - 1)
    ELSE IF a < 0 /\ b < 0 /\ a < (-2147483647 - 1) - b
    THEN (a + 2147483647 + 1) + (b + 2147483647 + 1)
    ELSE a + b

\* a - b on u32, wrapping
u32_sub(a, b) ==
    IF a >= 0 /\ b < 0 /\ a > 2147483647 + b
    THEN (a - 2147483647 - 1) - (b + 2147483647 + 1)
    ELSE IF a < 0 /\ b >= 0 /\ a < (-2147483647 - 1) + b
    THEN (a + 2147483647 + 1) - (b - 2147483647 - 1)
    ELSE a - b

----------------------------------------------------------------------------
(* Zero-initialised arrays, stored sparsely                                *)

EmptyArray == [i \in {} |-> 0]

AGet(arr, i) == IF i \in DOMAIN arr THEN arr[i] ELSE 0

ASet(arr, i, v) ==
    IF v = 0 THEN [j \in (DOMAIN arr) \ {i} |-> arr[j]]
    ELSE [j \in (DOMAIN arr) \cup {i} |-> IF j = i THEN v ELSE arr[j]]

----------------------------------------------------------------------------
(* registers.rs                                                            *)

Z == 128
N == 64
H == 32
C == 16

\* variant of Registers_new with F cleared
Registers_new_flags_clear ==
    [A |-> 1, F |-> 0, B |-> 0, C |-> 19, D |-> 0, E |-> 216,
     H |-> 1, L |-> 77, PC |-> 256, SP |-> 65534]

Registers_new ==
    [A |-> 1, F |-> 176, B |-> 0, C |-> 19, D |-> 0, E |-> 216,
     H |-> 1, L |-> 77, PC |-> 256, SP |-> 65534]

\* Registers::reset: the ten power-on values written into a register file
Registers_reset(r) ==
    [r EXCEPT !.A = 1, !.F = 176, !.B = 0, !.C = 19, !.D = 0, !.E = 216,
              !.H = 1, !.L = 77, !.PC = 256, !.SP = 65534]

get_af(r) == r.A * 256 + BitAnd(r.F, 240)
get_bc(r) == r.B * 256 + r.C
get_de(r) == r.D * 256 + r.E
get_hl(r) == r.H * 256 + r.L

\* variant of set_af that keeps all eight bits of F
set_af_unmasked(r, operand) == [r EXCEPT !.A = Shr(operand, 8), !.F = BitAnd(operand, 255)]

set_af(r, operand) == [r EXCEPT !.A = Shr(operand, 8), !.F = BitAnd(operand, 240)]
set_bc(r, operand) == [r EXCEPT !.B = Shr(operand, 8), !.C = BitAnd(operand, 255)]
set_de(r, operand) == [r EXCEPT !.D = Shr(operand, 8), !.E = BitAnd(operand, 255)]
set_hl(r, operand) == [r EXCEPT !.H = Shr(operand, 8), !.L = BitAnd(operand, 255)]

flag_set(r, flag) == [r EXCEPT !.F = BitOr(r.F, flag)]
flag_reset(r, flag) == [r EXCEPT !.F = BitAnd(r.F, Not8(flag))]
flag_get(r, flag) == BitAnd(r.F, flag) > 0

\* `if cond { flag_set(flag) } else { flag_reset(flag) }`
flag_put(r, flag, cond) == IF cond THEN flag_set(r, flag) ELSE flag_reset(r, flag)

----------------------------------------------------------------------------
(* gpu.rs                                                                  *)

GPU_new ==
    [vram |-> EmptyArray, oam |-> EmptyArray,
     switchbg |-> FALSE, bg_map |-> FALSE, bg_tile |-> FALSE, lcd_on |-> FALSE,
     scanline |-> 0, scroll_x |-> 0, scroll_y |-> 0, win_x |-> 0, win_y |-> 0,
     gpu_mode |-> 0, gpu_ticks |-> 0, prev_ticks |-> 0,
     palette_b |-> [i \in 0..3 |-> 0],
     s_palette0 |-> [i \in 0..3 |-> 0],
     s_palette1 |-> [i \in 0..3 |-> 0],
     pixel_buffer |-> EmptyArray,
     tiles |-> EmptyArray]

\* tiles[tile][x][y] of the decoded tile cache
tile_pixel(g, tile, x, y) == AGet(g.tiles, <<tile, x, y>>)

\* variant of update_tile that takes the low bit from the odd byte
update_tile_swapped_planes(g, address, value) ==
    LET addr == BitAnd(address, 8190)
        tile == BitAnd(Shr(addr, 4), 511)
        y == BitAnd(Shr(addr, 1), 7)
        px == [x \in 0..7 |->
                 (IF BitOf(AGet(g.vram, addr), 7 - x) # 0 THEN 2 ELSE 0)
               + (IF BitOf(AGet(g.vram, addr + 1), 7 - x) # 0 THEN 1 ELSE 0)]
        row == {<<tile, x, y>> : x \in 0..7}
        keep == (DOMAIN g.tiles) \ row
        set == {<<tile, x, y>> : x \in {xx \in 0..7 : px[xx] # 0}}
    IN [g EXCEPT !.tiles = [k \in keep \cup set |->
                               IF k \in row THEN px[k[2]] ELSE g.tiles[k]]]

\* Recompute the 8 cached pixels of the tile row that holds VRAM offset
\* (address & 0x1ffe) from the two bytes at that even offset.
update_tile(g, address, value) ==
    LET addr == BitAnd(address, 8190)
        tile == BitAnd(Shr(addr, 4), 511)
        y == BitAnd(Shr(addr, 1), 7)
        px == [x \in 0..7 |->
                 (IF BitOf(AGet(g.vram, addr), 7 - x) # 0 THEN 1 ELSE 0)
               + (IF BitOf(AGet(g.vram, addr + 1), 7 - x) # 0 THEN 2 ELSE 0)]
        row == {<<tile, x, y>> : x \in 0..7}
        keep == (DOMAIN g.tiles) \ row
        set == {<<tile, x, y>> : x \in {xx \in 0..7 : px[xx] # 0}}
    IN [g EXCEPT !.tiles = [k \in keep \cup set |->
                               IF k \in row THEN px[k[2]] ELSE g.tiles[k]]]

get_color(value, i) ==
    LET sel == BitAnd(Shr(value, i * 2), 3)
    IN CASE sel = 0 -> 255
         [] sel = 1 -> 192
         [] sel = 2 -> 96
         [] OTHER -> 0

u_palette_b(g, value) == [g EXCEPT !.palette_b = [i \in 0..3 |-> get_color(value, i)]]
u_s_palette0(g, value) == [g EXCEPT !.s_palette0 = [i \in 0..3 |-> get_color(value, i)]]
u_s_palette1(g, value) == [g EXCEPT !.s_palette1 = [i \in 0..3 |-> get_color(value, i)]]

\* GPU::render_scanline.  `map_offset` and `line_offset` are u8: map_offset
\* takes the type of the u8 values added to it, so the literals 0x1c00 and
\* 0x1800 are truncated to that width.
map_offset(g) ==
    Wrap8(IF g.bg_map THEN 7168 ELSE 6144)
       + Shr(BitAnd(Wrap8(g.scanline + g.scroll_y), 255), 3)

\* the k-th tile fetch of a scanline: k = 0 before the loop, then one each
\* time x wraps; line_offset has advanced k times modulo 32
fetch_tile(g, k) ==
    LET line_offset == BitAnd(Shr(g.scroll_x, 3) + k, 31)
        address == map_offset(g) + line_offset
        index == AGet(g.vram, address)
    IN [address |-> address, index |-> index,
        tile |-> index + (IF g.bg_tile /\ index < 128 THEN 256 ELSE 0)]

\* the value stored for pixel i of the scanline
scanline_pixel(g, i) ==
    LET x0 == BitAnd(g.scroll_x, 7)
        y == BitAnd(Wrap8(g.scanline + g.scroll_y), 7)
        color == tile_pixel(g, fetch_tile(g, (x0 + i) \div 8).tile, (x0 + i) % 8, y)
    IN g.palette_b[color]

\* Returns the new GPU and whether the call panicked: u8 overflow of
\* scanline + scroll_y, or pixel_offset outside pixel_buffer.
\* draw_framebuffer only talks to the renderer.
render_scanline(g) ==
    LET pixel_offset == g.scanline * 160
        line == {pixel_offset + i : i \in 0..159}
        lit == {pixel_offset + i : i \in {j \in 0..159 : scanline_pixel(g, j) # 0}}
        keep == (DOMAIN g.pixel_buffer) \ line
    IN [gpu |-> [g EXCEPT !.pixel_buffer =
                    [p \in keep \cup lit |->
                        IF p \in line THEN scanline_pixel(g, p - pixel_offset)
                        ELSE g.pixel_buffer[p]]],
        panic |-> \/ overflow_checks /\ g.scanline + g.scroll_y > 255
                  \/ pixel_offset + 159 >= 23040]

\* One call of GPU::gpu_cycle: add the tick delta, then perform at most one
\* mode transition.  Returns the new GPU and the flagupdate result.
\* variant of gpu_cycle whose VBLANK lasts one line longer
gpu_cycle_long_vblank(g, cputicks, flags, enable) ==
    LET delta == u32_sub(cputicks, g.prev_ticks)
        t == u32_add(g.gpu_ticks, delta)
        g1 == [g EXCEPT !.gpu_ticks = t, !.prev_ticks = cputicks]
        line == Wrap8(g.scanline + 1)
        done == ~u32_lt(t, CASE g.gpu_mode = 0 -> 204 [] g.gpu_mode = 1 -> 456
                             [] g.gpu_mode = 2 -> 80 [] OTHER -> 172)
    IN IF overflow_checks /\ ( \/ u32_lt(cputicks, g.prev_ticks)
                              \/ u32_carry(g.gpu_ticks, delta) )
       THEN [gpu |-> g, flagupdate |-> FALSE, panic |-> TRUE]
       ELSE IF overflow_checks /\ g.gpu_mode \in {0, 1} /\ done /\ g.scanline = 255
       THEN [gpu |-> g1, flagupdate |-> FALSE, panic |-> TRUE]
       ELSE
       CASE g.gpu_mode = 0 ->
              IF ~u32_lt(t, 204)
              THEN IF line = 143
                   THEN [gpu |-> [g1 EXCEPT !.scanline = line, !.gpu_mode = 1,
                                            !.gpu_ticks = u32_sub(t, 204)],
                         flagupdate |-> BitAnd(enable, flags) # 0,
                         panic |-> FALSE]
                   ELSE [gpu |-> [g1 EXCEPT !.scanline = line, !.gpu_mode = 2,
                                            !.gpu_ticks = u32_sub(t, 204)],
                         flagupdate |-> FALSE, panic |-> FALSE]
              ELSE [gpu |-> g1, flagupdate |-> FALSE, panic |-> FALSE]
         [] g.gpu_mode = 1 ->
              IF ~u32_lt(t, 456)
              THEN IF line > 154
                   THEN [gpu |-> [g1 EXCEPT !.scanline = 0, !.gpu_mode = 2,
                                            !.gpu_ticks = u32_sub(t, 456)],
                         flagupdate |-> FALSE, panic |-> FALSE]
                   ELSE [gpu |-> [g1 EXCEPT !.scanline = line, !.gpu_ticks = u32_sub(t, 456)],
                         flagupdate |-> FALSE, panic |-> FALSE]
              ELSE [gpu |-> g1, flagupdate |-> FALSE, panic |-> FALSE]
         [] g.gpu_mode = 2 ->
              IF ~u32_lt(t, 80)
              THEN [gpu |-> [g1 EXCEPT !.gpu_mode = 3, !.gpu_ticks = u32_sub(t, 80)],
                    flagupdate |-> FALSE, panic |-> FALSE]
              ELSE [gpu |-> g1, flagupdate |-> FALSE, panic |-> FALSE]
         [] g.gpu_mode = 3 ->
              IF ~u32_lt(t, 172)
              THEN [gpu |-> [g1 EXCEPT !.gpu_mode = 0, !.gpu_ticks = u32_sub(t, 172)],
                    flagupdate |-> FALSE, panic |-> FALSE]
              ELSE [gpu |-> g1, flagupdate |-> FALSE, panic |-> FALSE]
         [] OTHER -> [gpu |-> g1, flagupdate |-> FALSE, panic |-> TRUE]

\* variant of gpu_cycle whose PIXEL_XFER is followed by OAM_SCAN
gpu_cycle_no_hblank(g, cputicks, flags, enable) ==
    LET delta == u32_sub(cputicks, g.prev_ticks)
        t == u32_add(g.gpu_ticks, delta)
        g1 == [g EXCEPT !.gpu_ticks = t, !.prev_ticks = cputicks]
        line == Wrap8(g.scanline + 1)
        done == ~u32_lt(t, CASE g.gpu_mode = 0 -> 204 [] g.gpu_mode = 1 -> 456
                             [] g.gpu_mode = 2 -> 80 [] OTHER -> 172)
    IN IF overflow_checks /\ ( \/ u32_lt(cputicks, g.prev_ticks)
                              \/ u32_carry(g.gpu_ticks, delta) )
       THEN [gpu |-> g, flagupdate |-> FALSE, panic |-> TRUE]
       ELSE IF overflow_checks /\ g.gpu_mode \in {0, 1} /\ done /\ g.scanline = 255
       THEN [gpu |-> g1, flagupdate |-> FALSE, panic |-> TRUE]
       ELSE
       CASE g.gpu_mode = 0 ->
              IF ~u32_lt(t, 204)
              THEN IF line = 143
                   THEN [gpu |-> [g1 EXCEPT !.scanline = line, !.gpu_mode = 1,
                                            !.gpu_ticks = u32_sub(t, 204)],
                         flagupdate |-> BitAnd(enable, flags) # 0,
                         panic |-> FALSE]
                   ELSE [gpu |-> [g1 EXCEPT !.scanline = line, !.gpu_mode = 2,
                                            !.gpu_ticks = u32_sub(t, 204)],
                         flagupdate |-> FALSE, panic |-> FALSE]
              ELSE [gpu |-> g1, flagupdate |-> FALSE, panic |-> FALSE]
         [] g.gpu_mode = 1 ->
              IF ~u32_lt(t, 456)
              THEN IF line > 153
                   THEN [gpu |-> [g1 EXCEPT !.scanline = 0, !.gpu_mode = 2,
                                            !.gpu_ticks = u32_sub(t, 456)],
                         flagupdate |-> FALSE, panic |-> FALSE]
                   ELSE [gpu |-> [g1 EXCEPT !.scanline = line, !.gpu_ticks = u32_sub(t, 456)],
                         flagupdate |-> FALSE, panic |-> FALSE]
              ELSE [gpu |-> g1, flagupdate |-> FALSE, panic |-> FALSE]
         [] g.gpu_mode = 2 ->
              IF ~u32_lt(t, 80)
              THEN [gpu |-> [g1 EXCEPT !.gpu_mode = 3, !.gpu_ticks = u32_sub(t, 80)],
                    flagupdate |-> FALSE, panic |-> FALSE]
              ELSE [gpu |-> g1, flagupdate |-> FALSE, panic |-> FALSE]
         [] g.gpu_mode = 3 ->
              IF ~u32_lt(t, 172)
              THEN [gpu |-> [g1 EXCEPT !.gpu_mode = 2, !.gpu_ticks = u32_sub(t, 172)],
                    flagupdate |-> FALSE, panic |-> FALSE]
              ELSE [gpu |-> g1, flagupdate |-> FALSE, panic |-> FALSE]
         [] OTHER -> [gpu |-> g1, flagupdate |-> FALSE, panic |-> TRUE]

\* variant of gpu_cycle that clears the accumulator when PIXEL_XFER ends
gpu_cycle_drop_remainder(g, cputicks, flags, enable) ==
    LET delta == u32_sub(cputicks, g.prev_ticks)
        t == u32_add(g.gpu_ticks, delta)
        g1 == [g EXCEPT !.gpu_ticks = t, !.prev_ticks = cputicks]
        line == Wrap8(g.scanline + 1)
        done == ~u32_lt(t, CASE g.gpu_mode = 0 -> 204 [] g.gpu_mode = 1 -> 456
                             [] g.gpu_mode = 2 -> 80 [] OTHER -> 172)
    IN IF overflow_checks /\ ( \/ u32_lt(cputicks, g.prev_ticks)
                              \/ u32_carry(g.gpu_ticks, delta) )
       THEN [gpu |-> g, flagupdate |-> FALSE, panic |-> TRUE]
       ELSE IF overflow_checks /\ g.gpu_mode \in {0, 1} /\ done /\ g.scanline = 255
       THEN [gpu |-> g1, flagupdate |-> FALSE, panic |-> TRUE]
       ELSE
       CASE g.gpu_mode = 0 ->
              IF ~u32_lt(t, 204)
              THEN IF line = 143
                   THEN [gpu |-> [g1 EXCEPT !.scanline = line, !.gpu_mode = 1,
                                            !.gpu_ticks = u32_sub(t, 204)],
                         flagupdate |-> BitAnd(enable, flags) # 0,
                         panic |-> FALSE]
                   ELSE [gpu |-> [g1 EXCEPT !.scanline = line, !.gpu_mode = 2,
                                            !.gpu_ticks = u32_sub(t, 204)],
                         flagupdate |-> FALSE, panic |-> FALSE]
              ELSE [gpu |-> g1, flagupdate |-> FALSE, panic |-> FALSE]
         [] g.gpu_mode = 1 ->
              IF ~u32_lt(t, 456)
              THEN IF line > 153
                   THEN [gpu |-> [g1 EXCEPT !.scanline = 0, !.gpu_mode = 2,
                                            !.gpu_ticks = u32_sub(t, 456)],
                         flagupdate |-> FALSE, panic |-> FALSE]
                   ELSE [gpu |-> [g1 EXCEPT !.scanline = line, !.gpu_ticks = u32_sub(t, 456)],
                         flagupdate |-> FALSE, panic |-> FALSE]
              ELSE [gpu |-> g1, flagupdate |-> FALSE, panic |-> FALSE]
         [] g.gpu_mode = 2 ->
              IF ~u32_lt(t, 80)
              THEN [gpu |-> [g1 EXCEPT !.gpu_mode = 3, !.gpu_ticks = u32_sub(t, 80)],
                    flagupdate |-> FALSE, panic |-> FALSE]
              ELSE [gpu |-> g1, flagupdate |-> FALSE, panic |-> FALSE]
         [] g.gpu_mode = 3 ->
              IF ~u32_lt(t, 172)
              THEN [gpu |-> [g1 EXCEPT !.gpu_mode = 0, !.gpu_ticks = 0],
                    flagupdate |-> FALSE, panic |-> FALSE]
              ELSE [gpu |-> g1, flagupdate |-> FALSE, panic |-> FALSE]
         [] OTHER -> [gpu |-> g1, flagupdate |-> FALSE, panic |-> TRUE]

gpu_cycle(g, cputicks, flags, enable) ==
    LET delta == u32_sub(cputicks, g.prev_ticks)
        t == u32_add(g.gpu_ticks, delta)
        g1 == [g EXCEPT !.gpu_ticks = t, !.prev_ticks = cputicks]
        line == Wrap8(g.scanline + 1)
        done == ~u32_lt(t, CASE g.gpu_mode = 0 -> 204 [] g.gpu_mode = 1 -> 456
                             [] g.gpu_mode = 2 -> 80 [] OTHER -> 172)
    IN IF overflow_checks /\ ( \/ u32_lt(cputicks, g.prev_ticks)
                              \/ u32_carry(g.gpu_ticks, delta) )
       THEN [gpu |-> g, flagupdate |-> FALSE, panic |-> TRUE]
       ELSE IF overflow_checks /\ g.gpu_mode \in {0, 1} /\ done /\ g.scanline = 255
       THEN [gpu |-> g1, flagupdate |-> FALSE, panic |-> TRUE]
       ELSE
       CASE g.gpu_mode = 0 ->
              IF ~u32_lt(t, 204)
              THEN IF line = 143
                   THEN [gpu |-> [g1 EXCEPT !.scanline = line, !.gpu_mode = 1,
                                            !.gpu_ticks = u32_sub(t, 204)],
                         flagupdate |-> BitAnd(enable, flags) # 0,
                         panic |-> FALSE]
                   ELSE [gpu |-> [g1 EXCEPT !.scanline = line, !.gpu_mode = 2,
                                            !.gpu_ticks = u32_sub(t, 204)],
                         flagupdate |-> FALSE, panic |-> FALSE]
              ELSE [gpu |-> g1, flagupdate |-> FALSE, panic |-> FALSE]
         [] g.gpu_mode = 1 ->
              IF ~u32_lt(t, 456)
              THEN IF line > 153
                   THEN [gpu |-> [g1 EXCEPT !.scanline = 0, !.gpu_mode = 2,
                                            !.gpu_ticks = u32_sub(t, 456)],
                         flagupdate |-> FALSE, panic |-> FALSE]
                   ELSE [gpu |-> [g1 EXCEPT !.scanline = line, !.gpu_ticks = u32_sub(t, 456)],
                         flagupdate |-> FALSE, panic |-> FALSE]
              ELSE [gpu |-> g1, flagupdate |-> FALSE, panic |-> FALSE]
         [] g.gpu_mode = 2 ->
              IF ~u32_lt(t, 80)
              THEN [gpu |-> [g1 EXCEPT !.gpu_mode = 3, !.gpu_ticks = u32_sub(t, 80)],
                    flagupdate |-> FALSE, panic |-> FALSE]
              ELSE [gpu |-> g1, flagupdate |-> FALSE, panic |-> FALSE]
         [] g.gpu_mode = 3 ->
              IF ~u32_lt(t, 172)
              THEN [gpu |-> [g1 EXCEPT !.gpu_mode = 0, !.gpu_ticks = u32_sub(t, 172)],
                    flagupdate |-> FALSE, panic |-> FALSE]
              ELSE [gpu |-> g1, flagupdate |-> FALSE, panic |-> FALSE]
         [] OTHER -> [gpu |-> g1, flagupdate |-> FALSE, panic |-> TRUE]

----------------------------------------------------------------------------
(* memory.rs                                                               *)

VBLANK == 1
LCDCSTATUS == 2
TIMEROVERFLOW == 4
SERIALTC == 8
KEYPAD == 16

Memory_new ==
    [cart |-> EmptyArray, sram |-> EmptyArray, iram |-> EmptyArray,
     eram |-> EmptyArray, io |-> EmptyArray, hram |-> EmptyArray,
     master |-> FALSE, enable |-> 0, flags |-> 0,
     gpu |-> GPU_new]

\* Memory::gpu_cycle: tick the GPU, raise VBLANK in IF when it reports flagupdate.
\* Returns the new memory and whether the GPU panicked.
memory_gpu_cycle(m, cputicks) ==
    LET r == gpu_cycle(m.gpu, cputicks, m.flags, m.enable)
    IN [memory |-> [m EXCEPT !.gpu = r.gpu,
                             !.flags = IF r.flagupdate THEN BitOr(m.flags, VBLANK)
                                       ELSE m.flags],
        panic |-> r.panic]

read_byte(m, address) ==
    CASE address <= 32767 -> AGet(m.cart, address)
      [] address >= 32768 /\ address <= 40959 -> AGet(m.gpu.vram, address - 32768)
      [] address >= 40960 /\ address <= 49151 -> AGet(m.sram, address - 40960)
      [] address >= 49152 /\ address <= 57343 -> AGet(m.iram, address - 49152)
      [] address >= 57344 /\ address <= 65023 -> AGet(m.eram, address - 57344)
      [] address >= 65024 /\ address <= 65279 -> AGet(m.gpu.oam, address - 65024)
      [] address = 65280 -> 0
      [] address = 65284 -> 1
      [] address = 65344 -> BitOr(BitOr(IF m.gpu.switchbg THEN 1 ELSE 0,
                                        IF m.gpu.bg_map THEN 8 ELSE 0),
                                  BitOr(IF m.gpu.bg_tile THEN 16 ELSE 0,
                                        IF m.gpu.lcd_on THEN 128 ELSE 0))
      [] address = 65346 -> m.gpu.scroll_y
      [] address = 65347 -> m.gpu.scroll_x
      [] address = 65348 -> m.gpu.scanline
      [] address = 65354 -> m.gpu.win_y
      [] address = 65355 -> m.gpu.win_x
      [] address = 65295 -> m.flags
      [] address >= 65280 /\ address <= 65407
           /\ address \notin {65280, 65284, 65344, 65346, 65347, 65348, 65354, 65355, 65295}
           -> AGet(m.io, address - 65280)
      [] address >= 65408 /\ address <= 65534 -> AGet(m.hram, address - 65408)
      [] address = 65535 -> m.enable
      [] OTHER -> 1

RECURSIVE write_byte(_, _, _)
RECURSIVE oam_copy(_, _, _, _)

\* the iterations lo .. hi - 1 of the loop `for i in 0 .. 0xa0` of
\* oam_to_ram, in ascending order of i.  The range is halved and the bus
\* after the lower half is evaluated (by the test `lower = lower`) before
\* the upper half starts, so that the evaluation stays shallow.
oam_copy(m, v, lo, hi) ==
    IF hi - lo = 1
    THEN write_byte(m, 65024 + lo, read_byte(m, v + lo))
    ELSE LET half == (lo + hi) \div 2
             lower == oam_copy(m, v, lo, half)
         IN IF lower = lower THEN oam_copy(lower, v, half, hi) ELSE m

\* a transfer that reads each byte one address too high
oam_to_ram_off_by_one(m, value) == oam_copy(m, value * 256 + 1, 0, 160)

oam_to_ram(m, value) == oam_copy(m, value * 256, 0, 160)

write_byte(m, address, value) ==
    CASE address <= 32767 -> [m EXCEPT !.cart = ASet(@, address, value)]
      [] address >= 32768 /\ address <= 40959 ->
           LET m1 == [m EXCEPT !.gpu.vram = ASet(@, address - 32768, value)]
           IN IF address < 38911
              THEN [m1 EXCEPT !.gpu = update_tile(m1.gpu, address, value)]
              ELSE m1
      [] address >= 40960 /\ address <= 49151 -> [m EXCEPT !.sram = ASet(@, address - 40960, value)]
      [] address >= 49152 /\ address <= 57343 -> [m EXCEPT !.iram = ASet(@, address - 49152, value)]
      [] address >= 57344 /\ address <= 65023 -> [m EXCEPT !.eram = ASet(@, address - 57344, value)]
      [] address >= 65024 /\ address <= 65279 -> [m EXCEPT !.gpu.oam = ASet(@, address - 65024, value)]
      [] address = 65344 -> [m EXCEPT !.gpu.switchbg = BitAnd(value, 1) # 0,
                                      !.gpu.bg_map = BitAnd(value, 8) # 0,
                                      !.gpu.bg_tile = BitAnd(value, 16) # 0,
                                      !.gpu.lcd_on = BitAnd(value, 128) # 0]
      [] address = 65346 -> [m EXCEPT !.gpu.scroll_y = value]
      [] address = 65347 -> [m EXCEPT !.gpu.scroll_x = value]
      [] address = 65350 -> oam_to_ram(m, value)
      [] address = 65351 -> [m EXCEPT !.gpu = u_palette_b(@, value)]
      [] address = 65352 -> [m EXCEPT !.gpu = u_s_palette0(@, value)]
      [] address = 65353 -> [m EXCEPT !.gpu = u_s_palette1(@, value)]
      [] address = 65354 -> [m EXCEPT !.gpu.win_y = value]
      [] address = 65355 -> [m EXCEPT !.gpu.win_x = value]
      [] address = 65295 -> [m EXCEPT !.flags = value]
      [] address >= 65280 /\ address <= 65407
           /\ address \notin {65344, 65346, 65347, 65350, 65351, 65352, 65353, 65354, 65355, 65295}
           -> [m EXCEPT !.io = ASet(@, address - 65280, value)]
      [] address >= 65408 /\ address <= 65534 -> [m EXCEPT !.hram = ASet(@, address - 65408, value)]
      [] OTHER -> m

read_short(m, address) ==
    BitOr(read_byte(m, address), read_byte(m, Wrap16(address + 1)) * 256)

write_short(m, address, value) ==
    write_byte(write_byte(m, address, BitAnd(value, 255)),
               Wrap16(address + 1), Shr(value, 8))

\* Memory::put_initial: the I/O register values after the boot ROM
put_initial_writes ==
    << <<65285, 0>>, <<65286, 0>>, <<65287, 0>>, <<65296, 128>>, <<65297, 191>>,
       <<65298, 243>>, <<65300, 191>>, <<65302, 63>>, <<65303, 0>>, <<65305, 191>>,
       <<65306, 127>>, <<65307, 255>>, <<65308, 159>>, <<65310, 191>>, <<65312, 255>>,
       <<65313, 0>>, <<65314, 0>>, <<65315, 191>>, <<65316, 119>>, <<65317, 243>>,
       <<65318, 241>>, <<65344, 145>>, <<65346, 0>>, <<65347, 0>>, <<65349, 0>>,
       <<65351, 252>>, <<65352, 255>>, <<65353, 255>>, <<65354, 0>>, <<65355, 0>>,
       <<65535, 0>> >>

RECURSIVE write_all(_, _, _)
\* apply write_byte to the entries i.. of a sequence of <<address, value>>
write_all(m, ws, i) ==
    IF i > Len(ws) THEN m
    ELSE write_all(write_byte(m, ws[i][1], ws[i][2]), ws, i + 1)

put_initial(m) == write_all(m, put_initial_writes, 1)

----------------------------------------------------------------------------
(* cpu.rs: construction, fetch, stack                                      *)

CPU_new ==
    [register |-> Registers_new, memory |-> Memory_new,
     ticks |-> 0, stopped |-> FALSE, halted |-> FALSE,
     panicked |-> FALSE]   \* panicked: the process has aborted (panic!)

\* an unconditional panic!(), and an arithmetic overflow (a panic only in a
\* build with overflow checks; the value wraps otherwise)
panic_if(c, cond) == [c EXCEPT !.panicked = @ \/ cond]
overflow_if(c, cond) == [c EXCEPT !.panicked = @ \/ (overflow_checks /\ cond)]

getbyte(c) ==
    [cpu |-> overflow_if([c EXCEPT !.register.PC = Wrap16(@ + 1)],
                         c.register.PC + 1 > 65535),
     op |-> read_byte(c.memory, c.register.PC)]

getshort(c) ==
    [cpu |-> overflow_if([c EXCEPT !.register.PC = Wrap16(@ + 2)],
                         c.register.PC + 2 > 65535),
     op |-> read_short(c.memory, c.register.PC)]

push_stack(c, value) ==
    LET sp == Wrap16(c.register.SP + 65536 - 2)
    IN overflow_if([c EXCEPT !.register.SP = sp,
                             !.memory = write_short(@, sp, value)],
                   c.register.SP < 2 \/ sp = 65535)

\* variant of pop_stack that leaves SP where it is
pop_stack_keep_sp(c) == [cpu |-> c, v |-> read_short(c.memory, c.register.SP)]

pop_stack(c) ==
    [cpu |-> overflow_if([c EXCEPT !.register.SP = Wrap16(@ + 2)],
                         c.register.SP + 2 > 65535),
     v |-> read_short(c.memory, c.register.SP)]

----------------------------------------------------------------------------
(* cpu.rs: flag and ALU helpers                                            *)

fl(c, flag, cond) == [c EXCEPT !.register = flag_put(@, flag, cond)]

\* variant of rlc that fills bit 0 from the old carry
rlc_through_carry(c, value) ==
    LET carry == IF flag_get(c.register, C) THEN 1 ELSE 0
        v == Shl8(value, 1) + carry
    IN [cpu |-> fl(fl(fl(fl(c, C, BitAnd(value, 128) # 0), Z, v = 0), N, FALSE), H, FALSE),
        v |-> v]

rlc(c, value) ==
    LET carry == BitAnd(value, 128) = 128
        v == Shl8(value, 1) + (IF carry THEN 1 ELSE 0)
    IN [cpu |-> fl(fl(fl(fl(c, C, carry), Z, v = 0), N, FALSE), H, FALSE), v |-> v]

rrc(c, value) ==
    LET carry == BitAnd(value, 1) = 1
        v == BitOr(Shr(value, 1), IF carry THEN 128 ELSE 0)
    IN [cpu |-> fl(fl(fl(fl(c, C, carry), Z, v = 0), N, FALSE), H, FALSE), v |-> v]

rl(c, value) ==
    LET carry == IF flag_get(c.register, C) THEN 1 ELSE 0
        v == Shl8(value, 1) + carry
    IN [cpu |-> fl(fl(fl(fl(c, C, BitAnd(value, 128) # 0), Z, v = 0), N, FALSE), H, FALSE),
        v |-> v]

rr(c, value) ==
    LET v == BitOr(Shr(value, 1), IF flag_get(c.register, C) THEN 128 ELSE 0)
    IN [cpu |-> fl(fl(fl(fl(c, C, BitAnd(value, 1) # 0), Z, v = 0), N, FALSE), H, FALSE),
        v |-> v]

sla(c, value) ==
    LET v == Shl8(value, 1)
    IN [cpu |-> fl(fl(fl(fl(c, C, BitAnd(value, 128) # 0), Z, v = 0), N, FALSE), H, FALSE),
        v |-> v]

sra(c, value) ==
    LET v == BitOr(Shr(value, 1), BitAnd(value, 128))
    IN [cpu |-> fl(fl(fl(fl(c, C, BitAnd(value, 1) # 0), Z, v = 0), N, FALSE), H, FALSE),
        v |-> v]

srl(c, value) ==
    LET v == Shr(value, 1)
    IN [cpu |-> fl(fl(fl(fl(c, C, BitAnd(value, 1) # 0), Z, v = 0), N, FALSE), H, FALSE),
        v |-> v]

\* variant of swap that leaves the carry flag alone
swap_keep_carry(c, value) ==
    LET v == BitOr(Shl8(BitAnd(value, 15), 4), Shr(BitAnd(value, 240), 4))
    IN [cpu |-> fl(fl(fl(c, Z, v = 0), N, FALSE), H, FALSE), v |-> v]

swap(c, value) ==
    LET v == BitOr(Shl8(BitAnd(value, 15), 4), Shr(BitAnd(value, 240), 4))
    IN [cpu |-> fl(fl(fl(fl(c, Z, v = 0), C, FALSE), N, FALSE), H, FALSE), v |-> v]

bit(c, b, value) ==
    LET v == BitAnd(value, b)
    IN fl(fl(fl(c, Z, v = 0), N, FALSE), H, TRUE)

inc(c, value) ==
    LET v == Wrap8(value + 1)
    IN [cpu |-> fl(fl(fl(c, H, BitAnd(value, 15) = 15), Z, v = 0), N, FALSE), v |-> v]

dec(c, value) ==
    LET v == Wrap8(value + 256 - 1)
    IN [cpu |-> fl(fl(fl(c, H, ~(BitAnd(value, 15) # 0)), Z, v = 0), N, TRUE), v |-> v]

and(c, value) ==
    LET v == BitAnd(value, c.register.A)
    IN [fl(fl(fl(fl(c, Z, v = 0), N, FALSE), C, FALSE), H, TRUE) EXCEPT !.register.A = v]

xor(c, value) ==
    LET v == BitXor(c.register.A, value)
    IN [fl(fl(fl(fl(c, Z, v = 0), N, FALSE), H, FALSE), C, FALSE) EXCEPT !.register.A = v]

or(c, value) ==
    LET v == BitOr(c.register.A, value)
    IN [fl(fl(fl(fl(c, Z, v = 0), N, FALSE), H, FALSE), C, FALSE) EXCEPT !.register.A = v]

cp(c, value) ==
    LET a == c.register.A
    IN fl(fl(fl(fl(c, Z, a = value),
                H, BitAnd(a, 15) < BitAnd(value, 15)),
             C, a < value),
          N, TRUE)

\* `v & 0xff00` on a u8: the literal is truncated to the operand's width
add_a(c, value) ==
    LET a == c.register.A
        v == Wrap8(a + value)
    IN [fl(fl(fl(fl(c, Z, v = 0),
                 H, BitAnd(a, 15) + BitAnd(value, 15) > 15),
              C, BitAnd(v, Wrap8(65280)) # 0),
           N, FALSE)
        EXCEPT !.register.A = v]

adc_a(c, value) ==
    LET a == c.register.A
        carry == IF flag_get(c.register, C) THEN 1 ELSE 0
        v == Wrap8(Wrap8(a + value) + carry)
    IN [fl(fl(fl(fl(c, Z, a = value),
                 H, BitAnd(a, 15) + BitAnd(value, 15) > 15),
              C, BitAnd(v, Wrap8(65280)) # 0),
           N, FALSE)
        EXCEPT !.register.A = BitAnd(v, 255)]

\* variant of sub_a whose half-borrow compares the whole bytes
sub_a_byte_borrow(c, value) ==
    LET a == c.register.A
        v == Wrap8(a + 256 - value)
    IN [fl(fl(fl(fl(c, Z, v = 0),
                 H, a < value),
              C, value > a),
           N, TRUE)
        EXCEPT !.register.A = v]

sub_a(c, value) ==
    LET a == c.register.A
        v == Wrap8(a + 256 - value)
    IN [fl(fl(fl(fl(c, Z, v = 0),
                 H, BitAnd(a, 15) < BitAnd(value, 15)),
              C, value > a),
           N, TRUE)
        EXCEPT !.register.A = v]

sbc_a(c, value) ==
    LET a == c.register.A
        carry == IF flag_get(c.register, C) THEN 1 ELSE 0
        v == Wrap8(Wrap8(a + 256 - value) + 256 - carry)
    IN overflow_if(
         [fl(fl(fl(fl(c, Z, v = a),
                   H, BitAnd(a, 15) < BitAnd(Wrap8(value + carry), 15)),
                C, value > a),
             N, TRUE)
          EXCEPT !.register.A = v],
         value + carry > 255)

\* `res & 0xffff0000` on a u16: the literal is truncated to the operand's width
add_hl(c, value) ==
    LET hl == get_hl(c.register)
        res == Wrap16(hl + value)
        c1 == fl(fl(fl(c, N, FALSE),
                    C, BitAnd(res, 0) # 0),  \* the mask 0xffff0000 has no bit inside a u16
                 H, BitAnd(hl, 15) + BitAnd(value, 15) > 15)
    IN [c1 EXCEPT !.register = set_hl(@, res)]

----------------------------------------------------------------------------
(* cpu.rs: instruction handlers.  Operand positions of the opcode tables   *)
(* are numbered 0..7 = B, C, D, E, H, L, (HL), A.                          *)

reg8(c, i) ==
    CASE i = 0 -> c.register.B
      [] i = 1 -> c.register.C
      [] i = 2 -> c.register.D
      [] i = 3 -> c.register.E
      [] i = 4 -> c.register.H
      [] i = 5 -> c.register.L
      [] i = 6 -> read_byte(c.memory, get_hl(c.register))
      [] i = 7 -> c.register.A

set_reg8(c, i, v) ==
    CASE i = 0 -> [c EXCEPT !.register.B = v]
      [] i = 1 -> [c EXCEPT !.register.C = v]
      [] i = 2 -> [c EXCEPT !.register.D = v]
      [] i = 3 -> [c EXCEPT !.register.E = v]
      [] i = 4 -> [c EXCEPT !.register.H = v]
      [] i = 5 -> [c EXCEPT !.register.L = v]
      [] i = 6 -> [c EXCEPT !.memory = write_byte(@, get_hl(c.register), v)]
      [] i = 7 -> [c EXCEPT !.register.A = v]

\* ld_b_c .. ld_a_a, ld_r_hl, ld_hl_r
ld_r_r(c, d, s) == set_reg8(c, d, reg8(c, s))

\* ld_b_n .. ld_a_n, ld_hl_n
\* variant of ld_r_n that also clears F
ld_r_n_clear_flags(c, d, operand) == [set_reg8(c, d, operand) EXCEPT !.register.F = 0]

ld_r_n(c, d, operand) == set_reg8(c, d, operand)

\* inc_b .. inc_a, inc_hl_ptr
inc_r(c, i) == LET r == inc(c, reg8(c, i)) IN set_reg8(r.cpu, i, r.v)

\* dec_b .. dec_a, dec_hl_ptr
dec_r(c, i) == LET r == dec(c, reg8(c, i)) IN set_reg8(r.cpu, i, r.v)

\* add_a_b .. cp_a: ALU row k of opcodes 0x80..0xbf on operand value
alu_a(c, k, value) ==
    CASE k = 0 -> add_a(c, value)
      [] k = 1 -> adc_a(c, value)
      [] k = 2 -> sub_a(c, value)
      [] k = 3 -> sbc_a(c, value)
      [] k = 4 -> and(c, value)
      [] k = 5 -> xor(c, value)
      [] k = 6 -> or(c, value)
      [] k = 7 -> cp(c, value)

add_a_n(c, operand) == add_a(c, operand)
adc_a_n(c, operand) == add_a(c, operand)
sub_a_n(c, operand) == sub_a(c, operand)
sbc_a_n(c, operand) == sbc_a(c, operand)
and_n(c, operand) == and(c, operand)
xor_n(c, operand) == xor(c, operand)
or_n(c, operand) == or(c, operand)
cp_n(c, operand) == cp(c, operand)

\* 16-bit register pairs of the opcode table: 0..3 = BC, DE, HL, SP
get_rr(c, i) ==
    CASE i = 0 -> get_bc(c.register)
      [] i = 1 -> get_de(c.register)
      [] i = 2 -> get_hl(c.register)
      [] i = 3 -> c.register.SP

\* ld_bc_nn, ld_de_nn, ld_hl_nn, ld_sp_nn
ld_rr_nn(c, i, operand) ==
    CASE i = 0 -> [c EXCEPT !.register = set_bc(@, operand)]
      [] i = 1 -> [c EXCEPT !.register = set_de(@, operand)]
      [] i = 2 -> [c EXCEPT !.register = set_hl(@, operand)]
      [] i = 3 -> [c EXCEPT !.register.SP = operand]

\* inc_bc, inc_de, inc_hl use wrapping_add; inc_sp uses `+= 1`
inc_rr(c, i) ==
    CASE i = 0 -> [c EXCEPT !.register = set_bc(@, Wrap16(get_bc(c.register) + 1))]
      [] i = 1 -> [c EXCEPT !.register = set_de(@, Wrap16(get_de(c.register) + 1))]
      [] i = 2 -> [c EXCEPT !.register = set_hl(@, Wrap16(get_hl(c.register) + 1))]
      [] i = 3 -> overflow_if([c EXCEPT !.register.SP = Wrap16(@ + 1)],
                              c.register.SP + 1 > 65535)

\* dec_bc, dec_de, dec_hl, dec_sp all use wrapping_sub
dec_rr(c, i) ==
    CASE i = 0 -> [c EXCEPT !.register = set_bc(@, Wrap16(get_bc(c.register) + 65535))]
      [] i = 1 -> [c EXCEPT !.register = set_de(@, Wrap16(get_de(c.register) + 65535))]
      [] i = 2 -> [c EXCEPT !.register = set_hl(@, Wrap16(get_hl(c.register) + 65535))]
      [] i = 3 -> [c EXCEPT !.register.SP = Wrap16(@ + 65535)]

ld_bc_a(c) == [c EXCEPT !.memory = write_byte(@, get_bc(c.register), c.register.A)]
ld_de_a(c) == [c EXCEPT !.memory = write_byte(@, get_de(c.register), c.register.A)]
ld_a_bc(c) == [c EXCEPT !.register.A = read_byte(c.memory, get_bc(c.register))]
ld_a_de(c) == [c EXCEPT !.register.A = read_byte(c.memory, get_de(c.register))]

ld_nn_sp(c, operand) ==
    overflow_if([c EXCEPT !.memory = write_short(@, operand, c.register.SP)],
                operand = 65535)

ldi_hl_a(c) ==
    [c EXCEPT !.memory = write_byte(@, get_hl(c.register), c.register.A),
              !.register = set_hl(@, Wrap16(get_hl(c.register) + 1))]

ldi_a_hl(c) ==
    [c EXCEPT !.register = [set_hl(@, Wrap16(get_hl(c.register) + 1))
                            EXCEPT !.A = read_byte(c.memory, get_hl(c.register))]]

ldd_hl_a(c) ==
    [c EXCEPT !.memory = write_byte(@, get_hl(c.register), c.register.A),
              !.register = set_hl(@, Wrap16(get_hl(c.register) + 65535))]

ldd_a_hl(c) ==
    [c EXCEPT !.register = [set_hl(@, Wrap16(get_hl(c.register) + 65535))
                            EXCEPT !.A = read_byte(c.memory, get_hl(c.register))]]

rlca(c) ==
    LET carry == BitAnd(c.register.A, 128) = 128
        c1 == fl(c, C, carry)
        a == BitOr(Shl8(c1.register.A, 1), IF carry THEN 1 ELSE 0)
        c2 == [c1 EXCEPT !.register.A = a]
    IN fl(fl(fl(c2, Z, a = 0), H, FALSE), N, FALSE)

rrca(c) ==
    LET carry == BitAnd(c.register.A, 1) = 1
        c1 == fl(c, C, carry)
        a == IF carry THEN BitOr(Shr(c1.register.A, 1), 128) ELSE Shr(c1.register.A, 1)
        c2 == [c1 EXCEPT !.register.A = a]
    IN fl(fl(fl(c2, Z, a = 0), H, FALSE), N, FALSE)

rla(c) ==
    LET carry == BitAnd(c.register.A, 128) = 128
        c1 == fl(c, C, carry)
        a == BitOr(Shl8(c1.register.A, 1), IF carry THEN 1 ELSE 0)
        c2 == [c1 EXCEPT !.register.A = a]
    IN fl(fl(fl(c2, Z, a = 0), H, FALSE), N, FALSE)

rra(c) ==
    LET carry == BitAnd(c.register.A, 1) = 1
        c1 == fl(c, C, carry)
        a == BitOr(Shr(c1.register.A, 1), IF flag_get(c1.register, C) THEN 128 ELSE 0)
        c2 == [c1 EXCEPT !.register.A = a]
    IN fl(fl(fl(c2, Z, a = 0), H, FALSE), N, FALSE)

stop(c) == [c EXCEPT !.stopped = TRUE]
\* variant of halt that also sets IME
halt_sets_ime(c) == [c EXCEPT !.halted = TRUE, !.memory.master = TRUE]

halt(c) == [c EXCEPT !.halted = TRUE]

\* PC = ((PC as u32 as i32) + operand as i32) as u16
jr_n(c, operand) == [c EXCEPT !.register.PC = Wrap16(@ + 65536 + AsI8(operand))]
jr_nz_n(c, operand) == IF ~flag_get(c.register, Z) THEN jr_n(c, operand) ELSE c
jr_z_n(c, operand) == IF flag_get(c.register, Z) THEN jr_n(c, operand) ELSE c
jr_nc_n(c, operand) == IF ~flag_get(c.register, C) THEN jr_n(c, operand) ELSE c
jr_c_n(c, operand) == IF flag_get(c.register, C) THEN jr_n(c, operand) ELSE c

daa(c) ==
    LET a0 == c.register.A
        adj0 == IF flag_get(c.register, C) THEN 96 ELSE 0
        adj1 == IF flag_get(c.register, H) THEN BitOr(adj0, 6) ELSE adj0
        add == ~flag_get(c.register, N)
        adj2 == IF add /\ BitAnd(a0, 15) > 9 THEN BitOr(adj1, 6) ELSE adj1
        adjust == IF add /\ a0 > 153 THEN BitOr(adj2, 96) ELSE adj2
        a == IF add THEN Wrap8(a0 + adjust) ELSE Wrap8(a0 + 256 - adjust)
    IN [fl(fl(fl(c, C, adjust >= 96), Z, c.register.A = 0), H, FALSE)
        EXCEPT !.register.A = a]

cpl(c) == fl(fl([c EXCEPT !.register.A = Not8(@)], N, TRUE), H, TRUE)
scf(c) == fl(fl(fl(c, C, TRUE), H, FALSE), N, FALSE)
ccf(c) == fl(fl(fl(c, C, ~flag_get(c.register, C)), N, FALSE), H, FALSE)

jp_nn(c, operand) == [c EXCEPT !.register.PC = operand]
jp_nz_nn(c, operand) == IF ~flag_get(c.register, Z) THEN jp_nn(c, operand) ELSE c
jp_z_nn(c, operand) == IF flag_get(c.register, Z) THEN jp_nn(c, operand) ELSE c
jp_nc_nn(c, operand) == IF ~flag_get(c.register, C) THEN jp_nn(c, operand) ELSE c
jp_c_nn(c, operand) == IF flag_get(c.register, C) THEN jp_nn(c, operand) ELSE c
jp_hl(c) == [c EXCEPT !.register.PC = get_hl(c.register)]

call_nn(c, operand) ==
    [push_stack(c, c.register.PC) EXCEPT !.register.PC = operand]
call_nz_nn(c, operand) == IF ~flag_get(c.register, Z) THEN call_nn(c, operand) ELSE c
call_z_nn(c, operand) == IF flag_get(c.register, Z) THEN call_nn(c, operand) ELSE c
call_nc_nn(c, operand) == IF ~flag_get(c.register, C) THEN call_nn(c, operand) ELSE c
call_c_nn(c, operand) == IF flag_get(c.register, C) THEN call_nn(c, operand) ELSE c

ret(c) == LET p == pop_stack(c) IN [p.cpu EXCEPT !.register.PC = p.v]
ret_nz(c) == IF ~flag_get(c.register, Z) THEN ret(c) ELSE c
ret_z(c) == IF flag_get(c.register, Z) THEN ret(c) ELSE c
ret_nc(c) == IF ~flag_get(c.register, C) THEN ret(c) ELSE c
ret_c(c) == IF flag_get(c.register, C) THEN ret(c) ELSE c
\* variant of reti that leaves IME as it is
reti_keep_ime(c) == ret(c)

reti(c) == ret([c EXCEPT !.memory.master = TRUE])

\* rst_0 .. rst_38
rst(c, vector) == [push_stack(c, c.register.PC) EXCEPT !.register.PC = vector]

push_bc(c) == push_stack(c, get_bc(c.register))
push_de(c) == push_stack(c, get_de(c.register))
push_hl(c) == push_stack(c, get_hl(c.register))
push_af(c) == push_stack(c, get_af(c.register))

pop_bc(c) == LET p == pop_stack(c) IN [p.cpu EXCEPT !.register = set_bc(@, p.v)]
pop_de(c) == LET p == pop_stack(c) IN [p.cpu EXCEPT !.register = set_de(@, p.v)]
pop_hl(c) == LET p == pop_stack(c) IN [p.cpu EXCEPT !.register = set_hl(@, p.v)]
pop_af(c) == LET p == pop_stack(c) IN [p.cpu EXCEPT !.register = set_af(@, p.v)]

ldh_n_a(c, operand) ==
    [c EXCEPT !.memory = write_byte(@, BitOr(65280, operand), c.register.A)]
ldh_a_n(c, operand) ==
    [c EXCEPT !.register.A = read_byte(c.memory, BitOr(operand, 65280))]
ldh_c_a(c) ==
    [c EXCEPT !.memory = write_byte(@, BitOr(65280, c.register.C), c.register.A)]
ld_nn_a(c, operand) == [c EXCEPT !.memory = write_byte(@, operand, c.register.A)]
ld_a_nn(c, operand) == [c EXCEPT !.register.A = read_byte(c.memory, operand)]
ld_sp_hl(c) == [c EXCEPT !.register.SP = get_hl(c.register)]

\* operand as i8 as i16 as u16
sign_extend(operand) == IF operand >= 128 THEN 65280 + operand ELSE operand

add_sp_n(c, operand) ==
    LET v == sign_extend(operand)
        sp == c.register.SP
        c1 == fl(fl(fl(fl(c, H, BitAnd(sp, 15) + BitAnd(v, 15) > 15),
                       C, BitAnd(sp, 255) + BitAnd(v, 255) > 255),
                    Z, FALSE),
                 N, FALSE)
    IN overflow_if([c1 EXCEPT !.register.SP = Wrap16(sp + v)], sp + v > 65535)

ldhl_sp_d(c, operand) ==
    LET sp == c.register.SP
        v == Wrap16(sp + operand)
        c1 == fl(fl(fl(fl(c, H, BitAnd(sp, 15) + BitAnd(v, 15) > 15),
                       C, BitAnd(sp, 255) + BitAnd(v, 255) > 255),
                    Z, FALSE),
                 N, FALSE)
    IN overflow_if([c1 EXCEPT !.register = set_hl(@, v)], sp + operand > 65535)

di(c) == [c EXCEPT !.memory.master = FALSE]
ei(c) == [c EXCEPT !.memory.master = TRUE]

----------------------------------------------------------------------------
(* cpu.rs: decode                                                          *)

\* primary opcodes with no arm in execute(): they reach `_ => panic!`
unknown_ops == {64, 73, 82, 91, 100, 109, 211, 219, 221, 227, 228, 235, 236, 237,
                242, 244, 252, 253}

\* cycle count returned by each arm of execute(), by opcode (0 where there is
\* no arm; 0xcb returns the count of execute_cb)
op_cycles ==
    << 4, 12,  8,  8,  4,  4,  8,  4, 20,  8,  8,  8,  4,  4,  8,  4,
        4, 12,  8,  8,  4,  4,  8,  4,  8,  8,  8,  8,  4,  4,  8,  4,
        8, 12,  8,  8,  4,  4,  8,  4,  8,  8,  8,  8,  4,  4,  8,  4,
        8, 12,  8,  8, 12, 12, 12,  4,  8,  8,  8,  8,  4,  4,  8,  4,
        0,  4,  4,  4,  4,  4,  8,  4,  4,  0,  4,  4,  4,  4,  8,  4,
        4,  4,  0,  4,  4,  4,  8,  4,  4,  4,  4,  0,  4,  4,  8,  4,
        4,  4,  4,  4,  0,  4,  8,  4,  4,  4,  4,  4,  4,  0,  8,  4,
        8,  8,  8,  8,  8,  8,  4,  8,  4,  4,  4,  4,  4,  4,  8,  4,
        4,  4,  4,  4,  4,  4,  8,  4,  4,  4,  4,  4,  4,  4,  8,  4,
        4,  4,  4,  4,  4,  4,  8,  4,  4,  4,  4,  4,  4,  4,  8,  4,
        4,  4,  4,  4,  4,  4,  8,  4,  4,  4,  4,  4,  4,  4,  8,  4,
        4,  4,  4,  4,  4,  4,  8,  4,  4,  4,  4,  4,  4,  4,  8,  4,
        8, 12, 12, 12, 12, 16,  8, 32,  8,  8, 12,  0, 12, 12,  8, 32,
        8, 12, 12,  0, 12, 16,  8, 32,  8,  8, 12,  0, 12,  0,  8, 32,
       12, 12, 12,  0,  0, 16,  8, 32, 16,  4, 16,  0,  0,  0,  8, 32,
       12, 12,  0,  4,  0, 16,  8, 32, 12,  8, 16,  4,  0,  0,  8, 32 >>

execute_cb(c) ==
    LET f == getbyte(c)
        op == f.op
        c0 == f.cpu
        r == op % 8
        k == (op \div 8) % 8
        b == 2 ^ k
        v == reg8(c0, r)
        rot == CASE k = 0 -> rlc(c0, v)
                 [] k = 1 -> rrc(c0, v)
                 [] k = 2 -> rl(c0, v)
                 [] k = 3 -> rr(c0, v)
                 [] k = 4 -> sla(c0, v)
                 [] k = 5 -> sra(c0, v)
                 [] k = 6 -> swap(c0, v)
                 [] k = 7 -> srl(c0, v)
    IN [cpu |-> CASE op < 64 -> set_reg8(rot.cpu, r, rot.v)
                  [] op >= 64 /\ op < 128 -> bit(c0, b, v)
                  [] op >= 128 /\ op < 192 -> set_reg8(c0, r, BitAnd(v, Not8(b)))
                  [] op >= 192 -> set_reg8(c0, r, BitOr(v, b)),
        cycles |-> IF r = 6 THEN 16 ELSE 8]

\* the arm of execute() for opcode op, applied after the opcode fetch
execute_op(c0, op) ==
    LET n == getbyte(c0)
        nn == getshort(c0)
        hi == op \div 16
        row == (op \div 8) % 8
        col == op % 8
    IN CASE op = 0 -> c0
         [] op \in {1, 17, 33, 49} -> ld_rr_nn(nn.cpu, hi, nn.op)
         [] op = 2 -> ld_bc_a(c0)
         [] op = 18 -> ld_de_a(c0)
         [] op \in {3, 19, 35, 51} -> inc_rr(c0, hi)
         [] op \in {11, 27, 43, 59} -> dec_rr(c0, hi)
         [] op < 64 /\ col = 4 -> inc_r(c0, row)
         [] op < 64 /\ col = 5 -> dec_r(c0, row)
         [] op < 64 /\ col = 6 -> ld_r_n(n.cpu, row, n.op)
         [] op = 7 -> rlca(c0)
         [] op = 8 -> ld_nn_sp(nn.cpu, nn.op)
         [] op \in {9, 25, 41, 57} -> add_hl(c0, get_rr(c0, hi))
         [] op = 10 -> ld_a_bc(c0)
         [] op = 26 -> ld_a_de(c0)
         [] op = 15 -> rrca(c0)
         [] op = 16 -> stop(c0)
         [] op = 23 -> rla(c0)
         [] op = 24 -> jr_n(n.cpu, n.op)
         [] op = 31 -> rra(c0)
         [] op = 32 -> jr_nz_n(n.cpu, n.op)
         [] op = 34 -> ldi_hl_a(c0)
         [] op = 39 -> daa(c0)
         [] op = 40 -> jr_z_n(n.cpu, n.op)
         [] op = 42 -> ldi_a_hl(c0)
         [] op = 47 -> cpl(c0)
         [] op = 48 -> jr_nc_n(n.cpu, n.op)
         [] op = 50 -> ldd_hl_a(c0)
         [] op = 55 -> scf(c0)
         [] op = 56 -> jr_c_n(n.cpu, n.op)
         [] op = 58 -> ldd_a_hl(c0)
         [] op = 63 -> ccf(c0)
         [] op = 118 -> halt(c0)
         [] op >= 64 /\ op < 128 /\ op # 118 /\ op \notin unknown_ops ->
              ld_r_r(c0, row, col)
         [] op >= 128 /\ op < 192 -> alu_a(c0, row, reg8(c0, col))
         [] op = 192 -> ret_nz(c0)
         [] op = 193 -> pop_bc(c0)
         [] op = 194 -> jp_nz_nn(nn.cpu, nn.op)
         [] op = 195 -> jp_nn(nn.cpu, nn.op)
         [] op = 196 -> call_nz_nn(nn.cpu, nn.op)
         [] op = 197 -> push_bc(c0)
         [] op = 198 -> add_a_n(n.cpu, n.op)
         [] op \in {199, 207, 215, 223, 231, 239, 247, 255} -> rst(c0, op - 199)
         [] op = 200 -> ret_z(c0)
         [] op = 201 -> ret(c0)
         [] op = 202 -> jp_z_nn(nn.cpu, nn.op)
         [] op = 204 -> call_z_nn(nn.cpu, nn.op)
         [] op = 205 -> call_nn(nn.cpu, nn.op)
         [] op = 206 -> adc_a_n(n.cpu, n.op)
         [] op = 208 -> ret_nc(c0)
         [] op = 209 -> pop_de(c0)
         [] op = 210 -> jp_nc_nn(nn.cpu, nn.op)
         [] op = 212 -> call_nc_nn(nn.cpu, nn.op)
         [] op = 213 -> push_de(c0)
         [] op = 214 -> sub_a_n(n.cpu, n.op)
         [] op = 216 -> ret_c(c0)
         [] op = 217 -> reti(c0)
         [] op = 218 -> jp_c_nn(nn.cpu, nn.op)
         [] op = 220 -> call_c_nn(nn.cpu, nn.op)
         [] op = 222 -> sbc_a_n(n.cpu, n.op)
         [] op = 224 -> ldh_n_a(n.cpu, n.op)
         [] op = 225 -> pop_hl(c0)
         [] op = 226 -> ldh_c_a(c0)
         [] op = 229 -> push_hl(c0)
         [] op = 230 -> and_n(n.cpu, n.op)
         [] op = 232 -> add_sp_n(n.cpu, n.op)
         [] op = 233 -> jp_hl(c0)
         [] op = 234 -> ld_nn_a(nn.cpu, nn.op)
         [] op = 238 -> xor_n(n.cpu, n.op)
         [] op = 240 -> ldh_a_n(n.cpu, n.op)
         [] op = 241 -> pop_af(c0)
         [] op = 243 -> di(c0)
         [] op = 245 -> push_af(c0)
         [] op = 246 -> or_n(n.cpu, n.op)
         [] op = 248 -> ldhl_sp_d(n.cpu, n.op)
         [] op = 249 -> ld_sp_hl(c0)
         [] op = 250 -> ld_a_nn(nn.cpu, nn.op)
         [] op = 251 -> ei(c0)
         [] op = 254 -> cp_n(n.cpu, n.op)
         [] OTHER -> panic_if(c0, TRUE)

\* the breakpoint at the head of CPU::execute: with SP = 0xcff7 the registers
\* and memory are printed, a line is read from stdin and one scanline is
\* rendered
breakpoint(c) ==
    IF c.register.SP = 53239
    THEN panic_if([c EXCEPT !.memory.gpu = render_scanline(@).gpu],
                  render_scanline(c.memory.gpu).panic)
    ELSE c

\* fetch, dispatch, return the cycle count
dispatch(c) ==
    LET f == getbyte(c)
        op == f.op
    IN IF op = 203
       THEN execute_cb(f.cpu)
       ELSE [cpu |-> execute_op(f.cpu, op), cycles |-> op_cycles[op + 1]]

\* CPU::execute
execute(c) == dispatch(breakpoint(c))

----------------------------------------------------------------------------
(* cpu.rs: interrupts and the cycle loop                                   *)

\* vblank / lcd_status / timer_overflow / serial_transf_complete / keypad
interrupt_handler(c, vector) ==
    overflow_if([push_stack([c EXCEPT !.memory.master = FALSE], c.register.PC)
                 EXCEPT !.register.PC = vector, !.ticks = u32_add(@, 36)],
                u32_carry(c.ticks, 36))

vblank(c) == interrupt_handler(c, 64)
lcd_status(c) == interrupt_handler(c, 72)
timer_overflow(c) == interrupt_handler(c, 80)
serial_transf_complete(c) == interrupt_handler(c, 88)
keypad(c) == interrupt_handler(c, 96)

\* one `if (trigger & X) != 0 { flags &= !X; handler(); master = false }` block
interrupt_arm(c, trigger, flag, vector) ==
    IF BitAnd(trigger, flag) # 0
    THEN [interrupt_handler([c EXCEPT !.memory.flags = BitAnd(@, Not8(flag))], vector)
          EXCEPT !.memory.master = FALSE]
    ELSE c

interrupt_cycle(c) ==
    IF c.memory.master /\ c.memory.enable # 0 /\ c.memory.flags # 0
    THEN LET trigger == BitAnd(c.memory.enable, c.memory.flags)
             c1 == interrupt_arm(c, trigger, VBLANK, 64)
             c2 == interrupt_arm(c1, trigger, LCDCSTATUS, 72)
             c3 == interrupt_arm(c2, trigger, TIMEROVERFLOW, 80)
             c4 == interrupt_arm(c3, trigger, SERIALTC, 88)
         IN interrupt_arm(c4, trigger, KEYPAD, 96)
    ELSE c

\* the state left by a panic: the process is gone, its last state is kept
aborted(c) == [c EXCEPT !.panicked = TRUE]

\* a call that panicked leaves the state it was made in, aborted
unless_panicked(c, r) == IF r.panicked THEN aborted(c) ELSE r

\* an instruction that charges no cycles
charge_nothing(e) == e.cpu

\* `self.ticks += self.execute() as u32`
charge(e) ==
    overflow_if([e.cpu EXCEPT !.ticks = u32_add(@, e.cycles)],
                u32_carry(e.cpu.ticks, e.cycles))

\* `self.memory.gpu_cycle(self.ticks)`
tick_gpu(c) ==
    LET g == memory_gpu_cycle(c.memory, c.ticks)
    IN panic_if([c EXCEPT !.memory = g.memory], g.panic)

\* a cycle that does not test `stopped`
cpu_cycle_ignores_stop(c) ==
    unless_panicked(c, interrupt_cycle(tick_gpu(charge(execute(c)))))

cpu_cycle(c) ==
    IF c.stopped THEN c
    ELSE unless_panicked(c, interrupt_cycle(tick_gpu(charge(execute(c)))))

----------------------------------------------------------------------------
(* cartridge.rs and CPU::initialize.  A ROM file is a record               *)
(* [exists, len, bytes]: whether the file can be read, its length and its  *)
(* non-zero bytes by offset.                                               *)

rom_size(size) ==
    CASE size = 0 -> 2
      [] size = 1 -> 4
      [] size = 2 -> 8
      [] size = 3 -> 16
      [] size = 4 -> 32
      [] size = 5 -> 64
      [] size = 6 -> 128
      [] size = 82 -> 72
      [] size = 83 -> 80
      [] size = 84 -> 96
      [] OTHER -> 0

RECURSIVE load_copy(_, _, _)
\* the loop `for (idx, element) in data` from offset idx on
load_copy(m, data, idx) ==
    IF idx >= data.len THEN m
    ELSE load_copy(write_byte(m, Wrap16(idx), AGet(data.bytes, idx)), data, idx + 1)

\* a loader that copies the first byte of the file before any check
load_rom_copy_first(m, data) ==
    IF data.exists /\ data.len > 0
    THEN [memory |-> write_byte(m, 0, AGet(data.bytes, 0)), result |-> "RomSize",
          panic |-> FALSE]
    ELSE [memory |-> m, result |-> "LoadError", panic |-> FALSE]

\* The first 0x8000 writes of the loop all land in cart; they are applied
\* in one step, the remaining ones (longer files) one by one.
load_rom(m, data) ==
    IF ~data.exists THEN [memory |-> m, result |-> "LoadError", panic |-> FALSE]
    ELSE IF data.len < 384 THEN [memory |-> m, result |-> "RomSize", panic |-> FALSE]
    ELSE LET romsize == rom_size(AGet(data.bytes, 328))
             n == IF data.len < 32768 THEN data.len ELSE 32768
             src == {i \in DOMAIN data.bytes : i < n}
             old == {i \in DOMAIN m.cart : i >= n}
             m1 == [m EXCEPT !.cart = [i \in src \cup old |->
                                         IF i \in src THEN data.bytes[i] ELSE m.cart[i]]]
         IN IF overflow_checks /\ romsize * 16 > 255
            THEN [memory |-> m, result |-> "panic", panic |-> TRUE]
            ELSE IF Wrap8(romsize * 16) # 32
            THEN [memory |-> m, result |-> "RomSize", panic |-> FALSE]
            ELSE [memory |-> load_copy(m1, data, n), result |-> "Ok", panic |-> FALSE]

initialize(c, data) ==
    LET l == load_rom(c.memory, data)
    IN IF l.panic THEN aborted(c)
       ELSE [c EXCEPT !.memory = put_initial(l.memory)]

----------------------------------------------------------------------------
(* Driver inputs                                                           *)

\* a 32 KiB ROM-only image with the program bytes at the entry point 0x100
Image(prog) ==
    [exists |-> TRUE, len |-> 32768,
     bytes |-> [a \in {255 + i : i \in {j \in 1..Len(prog) : prog[j] # 0}} |-> prog[a - 255]]]

NoRom == [exists |-> FALSE, len |-> 0, bytes |-> EmptyArray]

\* all NOPs
NopRom == Image(<< >>)

\* LD A,1; LDH (0xFF),A; EI; here: JR here
VblankRom == Image(<<62, 1, 224, 255, 251, 24, 254>>)

\* LD A,0x2A; LD B,7; ADD A,B; HALT; then: INC B; JR then
HaltRom == Image(<<62, 42, 6, 7, 128, 118, 4, 24, 253>>)

\* LD A,1; LDH (0x0F),A; LDH (0xFF),A; EI; STOP
StopRom == Image(<<62, 1, 224, 15, 224, 255, 251, 16>>)

Roms == {NoRom, NopRom, VblankRom, HaltRom, StopRom}

\* loop: NOP; NOP; PUSH BC; POP BC; JR loop
LoopRom == Image(<<0, 0, 197, 193, 24, 251>>)

\* tick budget of a run of main(): a little more than one frame
MaxTicks == 72000

\* tick budget of the GPU driver: a little more than two frames
MaxGpuTicks == 140400

\* tick increments between two calls: instruction lengths, one with an
\* interrupt dispatch (20 + 36) in between, and one with two dispatches
\* (24 + 2 * 36), longer than an OAM_SCAN period
TickDeltas == {4, 12, 20, 56, 96}

no_call == [op |-> "none", pre |-> CPU_new, args |-> << >>, result |-> FALSE]

----------------------------------------------------------------------------
(* Spec: main() -- initialize(rom), then cpu_cycle() for ever              *)

Init ==
    /\ overflow_checks \in BOOLEAN
    /\ \E rom \in Roms : cpu = initialize(CPU_new, rom)
    /\ last = no_call
    /\ steps = 0

CpuCycle ==
    /\ ~cpu.panicked
    /\ cpu.ticks < MaxTicks
    /\ cpu' = cpu_cycle(cpu)
    /\ last' = [op |-> "cpu_cycle", pre |-> cpu, args |-> << >>, result |-> FALSE]
    /\ UNCHANGED <<overflow_checks, steps>>

Next == CpuCycle

Spec == Init /\ [][Next]_vars

----------------------------------------------------------------------------
(* SpecGpu: Memory::gpu_cycle called with a growing cumulative tick count,  *)
(* with nothing enabled or with IE = 3 and the LCD-status bit pending      *)

InitGpu ==
    /\ overflow_checks \in BOOLEAN
    /\ \E ief \in {<<0, 0>>, <<3, 2>>} :
          cpu = [CPU_new EXCEPT !.memory.enable = ief[1], !.memory.flags = ief[2]]
    /\ last = no_call
    /\ steps = 0

\* duration of a GPU mode in ticks
duration(mode) ==
    CASE mode = 2 -> 80 [] mode = 3 -> 172 [] mode = 0 -> 204 [] OTHER -> 456

\* a call of gpu_cycle that took g0 to g completed a mode period: the mode
\* or (between two VBLANK lines) the scanline counter has changed
period_completed(g0, g) == g.gpu_mode # g0.gpu_mode \/ g.scanline # g0.scanline

\* the call, and the bookkeeping of the completed periods in `steps`
GpuDone(r, d) ==
    /\ cpu' = [cpu EXCEPT !.ticks = @ + d, !.memory = r.memory,
                          !.panicked = r.panic]
    /\ last' = [op |-> "gpu_cycle", pre |-> cpu, args |-> <<d>>,
                result |-> gpu_cycle(cpu.memory.gpu, cpu.ticks + d,
                                     cpu.memory.flags, cpu.memory.enable).flagupdate]
    /\ steps' = steps + (IF period_completed(cpu.memory.gpu, r.memory.gpu)
                         THEN duration(cpu.memory.gpu.gpu_mode) ELSE 0)
    /\ UNCHANGED overflow_checks

GpuTick(d) ==
    /\ cpu.ticks < MaxGpuTicks
    /\ GpuDone(memory_gpu_cycle(cpu.memory, cpu.ticks + d), d)

NextGpu == \E d \in TickDeltas : GpuTick(d)

SpecGpu == InitGpu /\ [][NextGpu]_vars

----------------------------------------------------------------------------
(* SpecMem: write_byte calls on the bus of a freshly constructed machine   *)

MemAddrs == {32768, 32769, 38910, 38911, 38912, 65295, 65535,
             49152, 56831, 57344, 65023, 65184, 65279}

MemValues == {0, 60, 66, 255}

MaxWrites == 2

InitMem ==
    /\ overflow_checks \in BOOLEAN
    /\ cpu = CPU_new
    /\ last = no_call
    /\ steps = 0

WriteByte(address, value) ==
    /\ steps < MaxWrites
    /\ cpu' = [cpu EXCEPT !.memory = write_byte(@, address, value)]
    /\ last' = [op |-> "write_byte", pre |-> cpu, args |-> <<address, value>>,
                result |-> FALSE]
    /\ steps' = steps + 1
    /\ UNCHANGED overflow_checks

\* the source pages of an OAM DMA: ROM, VRAM, work RAM, echo RAM, OAM itself
\* and the I/O page
DmaPages == {0, 128, 192, 224, 254, 255}

\* write_byte(0xFF46, val): the OAM DMA transfer
OamDma(val) ==
    /\ steps < MaxWrites
    /\ cpu' = [cpu EXCEPT !.memory = write_byte(@, 65350, val)]
    /\ last' = [op |-> "write_byte", pre |-> cpu, args |-> <<65350, val>>,
                result |-> FALSE]
    /\ steps' = steps + 1
    /\ UNCHANGED overflow_checks

NextMem ==
    \/ \E address \in MemAddrs, value \in MemValues : WriteByte(address, value)
    \/ \E val \in DmaPages : OamDma(val)

SpecMem == InitMem /\ [][NextMem]_vars

----------------------------------------------------------------------------
(* SpecAlu: the boot state with A and F drawn; one arithmetic instruction  *)
(* is written at PC and stepped, its operand placed in B, at (HL) and      *)
(* after the opcode so that every form of the instruction reads it.        *)

\* ADC A,B; ADC A,(HL); ADC A,n; SUB B; SUB (HL); SUB n; CP B; CP (HL); CP n;
\* ADD A,B; ADD A,(HL); ADD A,n; SBC A,B; SBC A,(HL); SBC A,n
AluOps == {136, 142, 206, 144, 150, 214, 184, 190, 254,
           128, 134, 198, 152, 158, 222}

Operands == {0, 1, 2, 15, 16, 17, 58, 127, 128, 129, 154, 198, 240, 241, 254, 255}

FlagBytes == {0, 240}

alu_setup(c, op, b) ==
    LET m1 == write_byte(c.memory, c.register.PC, op)
        m2 == write_byte(m1, c.register.PC + 1, b)
        m3 == write_byte(m2, 49152, b)
    IN [c EXCEPT !.register.B = b, !.register.H = 192, !.register.L = 0,
                 !.memory = m3]

InitAlu ==
    /\ overflow_checks \in BOOLEAN
    /\ \E a \in Byte, f \in FlagBytes :
          cpu = [initialize(CPU_new, NoRom) EXCEPT !.register.A = a, !.register.F = f]
    /\ last = no_call
    /\ steps = 0

AluStep(op, b) ==
    /\ steps = 0
    /\ LET c == alu_setup(cpu, op, b)
       IN /\ cpu' = cpu_cycle(c)
          /\ last' = [op |-> "cpu_cycle", pre |-> c, args |-> <<op, b>>,
                      result |-> FALSE]
    /\ steps' = 1
    /\ UNCHANGED overflow_checks

NextAlu == \E op \in AluOps, b \in Operands : AluStep(op, b)

SpecAlu == InitAlu /\ [][NextAlu]_vars

----------------------------------------------------------------------------
(* SpecInt: main() on programs that enable and request interrupts through  *)
(* the bus (IE at 0xFFFF, IF at 0xFF0F), execute EI and then loop          *)

\* the (IE, IF) bytes the programs store
IntRequests ==
    { <<1, 1>>, <<2, 2>>, <<16, 16>>, <<31, 8>>, <<4, 31>>,
      <<3, 3>>, <<31, 31>>, <<31, 6>>, <<5, 7>>, <<24, 25>> }

\* LD A,ie; LDH (0xFF),A; LD A,if; LDH (0x0F),A; EI; loop: NOP; JR loop
IntRom(ie, iflags) ==
    Image(<<62, ie, 224, 255, 62, iflags, 224, 15, 251, 0, 24, 253>>)

\* length of a run in cpu_cycle calls: the five instructions up to EI and
\* some turns of the loop
MaxIntCycles == 12

\* the byte the program has asked the bus to store at 0xFFFF: A when the
\* instruction at PC is LDH (0xFF),A (the only store to IE in IntRom),
\* otherwise the byte asked for so far
ie_requested(c, sofar) ==
    IF /\ read_byte(c.memory, c.register.PC) = 224
       /\ read_byte(c.memory, c.register.PC + 1) = 255
    THEN c.register.A ELSE sofar

InitInt ==
    /\ overflow_checks \in BOOLEAN
    /\ \E r \in IntRequests : cpu = initialize(CPU_new, IntRom(r[1], r[2]))
    /\ last = [no_call EXCEPT !.args = <<0>>]
    /\ steps = 0

\* a cpu_cycle; last.args holds the byte requested for IE and last.result
\* the state between the GPU tick and the interrupt service
IntDone(c, ie) ==
    /\ cpu' = cpu_cycle(c)
    /\ last' = [op |-> "cpu_cycle", pre |-> c, args |-> <<ie>>,
                result |-> tick_gpu(charge(execute(c)))]

CpuCycleInt ==
    /\ steps < MaxIntCycles
    /\ ~cpu.panicked
    /\ IntDone(cpu, ie_requested(cpu, last.args[1]))
    /\ steps' = steps + 1
    /\ UNCHANGED overflow_checks

NextInt == CpuCycleInt

SpecInt == InitInt /\ [][NextInt]_vars

----------------------------------------------------------------------------
(* SpecExec: instructions written at PC and stepped one at a time from the *)
(* boot state, with IE either empty or enabling all five sources           *)

Instrs ==
    { <<0>>, <<197>>, <<245>>, <<241>>, <<193>>, <<1, 255, 18>>, <<62, 15>>,
      <<198, 241>>, <<206, 1>>, <<214, 1>>, <<254, 1>>, <<39>>, <<47>>, <<55>>,
      <<63>>, <<7>>, <<4>>, <<5>>, <<9>>, <<203, 55>>, <<224, 15>>, <<251>>,
      <<243>>, <<118>>, <<217>>, <<232, 1>>, <<248, 1>> }

MaxSteps == 3

RECURSIVE poke(_, _, _, _)
\* write_byte of bytes[i..] at address, address + 1, ...
poke(m, address, bytes, i) ==
    IF i > Len(bytes) THEN m
    ELSE poke(write_byte(m, Wrap16(address), bytes[i]), address + 1, bytes, i + 1)

InitExec ==
    /\ overflow_checks \in BOOLEAN
    /\ \E ie \in {0, 31} :
          cpu = [initialize(CPU_new, NoRom) EXCEPT !.memory.enable = ie]
    /\ last = no_call
    /\ steps = 0

ExecInstr(bytes) ==
    /\ steps < MaxSteps
    /\ ~cpu.panicked
    /\ LET c == [cpu EXCEPT !.memory = poke(@, cpu.register.PC, bytes, 1)]
       IN /\ cpu' = cpu_cycle(c)
          /\ last' = [op |-> "cpu_cycle", pre |-> c, args |-> bytes, result |-> FALSE]
    /\ steps' = steps + 1
    /\ UNCHANGED overflow_checks

\* Registers::reset on the register file.  Nothing in src/ calls it (main
\* only constructs, initializes and cycles the CPU); it is a public method
\* of the register file and is applied here between instructions.
ResetRegisters ==
    /\ steps < MaxSteps
    /\ ~cpu.panicked
    /\ cpu' = [cpu EXCEPT !.register = Registers_reset(@)]
    /\ last' = [op |-> "reset", pre |-> cpu, args |-> << >>, result |-> FALSE]
    /\ steps' = steps + 1
    /\ UNCHANGED overflow_checks

NextExec ==
    \/ \E bytes \in Instrs : ExecInstr(bytes)
    \/ ResetRegisters

SpecExec == InitExec /\ [][NextExec]_vars

----------------------------------------------------------------------------
(* SpecPair: two instructions executed back to back from the boot state    *)
(* with the registers, F and SP drawn: PUSH rr; POP rr, SWAP r; SWAP r and *)
(* RLC r; RRC r.  last.pre is the state before the first instruction and   *)
(* last.result the state between the two.                                  *)

\* PUSH/POP BC, DE, HL, AF; SWAP B; SWAP A; RLC B, RRC B; RLC A, RRC A
Pairs ==
    { << <<197>>, <<193>> >>, << <<213>>, <<209>> >>, << <<229>>, <<225>> >>,
      << <<245>>, <<241>> >>, << <<203, 48>>, <<203, 48>> >>,
      << <<203, 55>>, <<203, 55>> >>, << <<203, 0>>, <<203, 8>> >>,
      << <<203, 7>>, <<203, 15>> >> }

\* stack tops in high RAM, work RAM and switchable RAM
StackTops == {65534, 53248, 49154, 40962}

\* the instruction bytes written at PC
with_instr(c, bytes) == [c EXCEPT !.memory = poke(@, c.register.PC, bytes, 1)]

\* one cpu_cycle, unless the emulator has already aborted
next_instr(c, bytes) == IF c.panicked THEN c ELSE cpu_cycle(with_instr(c, bytes))

InitPair ==
    /\ overflow_checks \in BOOLEAN
    /\ \E v \in Byte, f \in FlagBytes, sp \in StackTops :
          cpu = [initialize(CPU_new, NoRom) EXCEPT
                    !.register.A = v, !.register.F = f,
                    !.register.B = v, !.register.C = 255 - v,
                    !.register.D = v, !.register.E = 255 - v,
                    !.register.H = v, !.register.L = 255 - v,
                    !.register.SP = sp]
    /\ last = no_call
    /\ steps = 0

PairDone(c, mid, second) ==
    /\ cpu' = next_instr(mid, second)
    /\ last' = [op |-> "pair", pre |-> c, args |-> second, result |-> mid]

ExecPair(first, second) ==
    /\ steps = 0
    /\ PairDone(with_instr(cpu, first), cpu_cycle(with_instr(cpu, first)), second)
    /\ steps' = 1
    /\ UNCHANGED overflow_checks

NextPair == \E p \in Pairs : ExecPair(p[1], p[2])

SpecPair == InitPair /\ [][NextPair]_vars

----------------------------------------------------------------------------
(* SpecOps: every primary opcode and every 0xCB opcode executed once from  *)
(* the boot state with F drawn.  The opcode is followed by an operand byte *)
(* and 0xC0, so that 16-bit operands address work RAM.                     *)

Opcodes == 0..255 \ {203}

\* LD B,n; LD C,n; LD D,n; LD E,n; LD H,n; LD L,n; LD A,n
LdImmOps == {6, 14, 22, 30, 38, 46, 62}

OpFlagBytes == {0, 80, 160, 240}

InitOps ==
    /\ overflow_checks \in BOOLEAN
    /\ \E f \in OpFlagBytes :
          cpu = [initialize(CPU_new, NoRom) EXCEPT !.register.F = f]
    /\ last = no_call
    /\ steps = 0

OpDone(c, args) ==
    /\ cpu' = cpu_cycle(c)
    /\ last' = [op |-> "cpu_cycle", pre |-> c, args |-> args, result |-> FALSE]

ExecOpcode(op, n) ==
    /\ steps = 0
    /\ OpDone(with_instr(cpu, <<op, n, 192>>), <<op, n>>)
    /\ steps' = 1
    /\ UNCHANGED overflow_checks

ExecCbOpcode(op) ==
    /\ steps = 0
    /\ OpDone(with_instr(cpu, <<203, op>>), <<203, op>>)
    /\ steps' = 1
    /\ UNCHANGED overflow_checks

NextOps ==
    \/ \E op \in Opcodes :
          \E n \in (IF op \in LdImmOps THEN Byte ELSE Operands) : ExecOpcode(op, n)
    \/ \E op \in Byte : ExecCbOpcode(op)

SpecOps == InitOps /\ [][NextOps]_vars

----------------------------------------------------------------------------
(* SpecArith: main() up to the first instructions -- CPU::new(), then      *)
(* initialize() without a ROM, then one arithmetic instruction (or ADD A,n *)
(* followed by DAA) executed with its registers and F drawn.               *)

\* RLCA, RRCA, RLA, RRA, DAA
AccOps == {7, 15, 23, 31, 39}

\* ADD HL,BC; ADD HL,DE
AddHlOps == {9, 25}

\* ADD SP,e8; LDHL SP,e8
SpOps == {232, 248}

\* every value of the flag nibble Z N H C
AllFlagBytes == {16 * i : i \in 0..15}

\* 16-bit operands around the carries out of bits 3, 7, 11 and 15
Words == {0, 1, 15, 255, 256, 2047, 2048, 4095, 4096, 32768, 61440, 65281,
          65520, 65534, 65535}

\* packed BCD bytes: both nibbles 0..9
BcdBytes == {16 * h + l : h \in 0..9, l \in 0..9}

InitArith ==
    /\ overflow_checks \in BOOLEAN
    /\ cpu = CPU_new
    /\ last = no_call
    /\ steps = 0

Boot ==
    /\ steps = 0
    /\ cpu' = initialize(cpu, NoRom)
    /\ last' = [op |-> "initialize", pre |-> cpu, args |-> << >>, result |-> FALSE]
    /\ steps' = 1
    /\ UNCHANGED overflow_checks

AccStep(op, a, f) ==
    /\ steps = 1
    /\ OpDone(with_instr([cpu EXCEPT !.register.A = a, !.register.F = f], <<op>>),
              <<op>>)
    /\ steps' = 2
    /\ UNCHANGED overflow_checks

AddHlStep(op, hl, other, f) ==
    /\ steps = 1
    /\ OpDone(with_instr([cpu EXCEPT !.register =
                             [set_de(set_bc(set_hl(@, hl), other), other) EXCEPT !.F = f]],
                         <<op>>),
              <<op, hl, other>>)
    /\ steps' = 2
    /\ UNCHANGED overflow_checks

SpStep(op, sp, e, f) ==
    /\ steps = 1
    /\ OpDone(with_instr([cpu EXCEPT !.register.SP = sp, !.register.F = f], <<op, e>>),
              <<op, e>>)
    /\ steps' = 2
    /\ UNCHANGED overflow_checks

\* the state with A = a and ADD A,b at PC
bcd_setup(c, a, b, f) ==
    with_instr([c EXCEPT !.register.A = a, !.register.F = f], <<198, b>>)

BcdStep(a, b, f) ==
    /\ steps = 1
    /\ PairDone(bcd_setup(cpu, a, b, f), cpu_cycle(bcd_setup(cpu, a, b, f)), <<39>>)
    /\ steps' = 2
    /\ UNCHANGED overflow_checks

\* the guard of the instruction steps is tested before their inputs are drawn
booted == steps = 1

NextArith ==
    \/ Boot
    \/ booted /\ \E op \in AccOps, a \in Byte, f \in AllFlagBytes : AccStep(op, a, f)
    \/ booted /\ \E op \in AddHlOps, hl \in Words, other \in Words, f \in FlagBytes :
                    AddHlStep(op, hl, other, f)
    \/ booted /\ \E op \in SpOps, sp \in Words, e \in Byte, f \in FlagBytes :
                    SpStep(op, sp, e, f)
    \/ booted /\ \E a \in BcdBytes, b \in BcdBytes, f \in FlagBytes : BcdStep(a, b, f)

SpecArith == InitArith /\ [][NextArith]_vars

----------------------------------------------------------------------------
(* SpecRender: after initialize() with VRAM filled through write_byte, the *)
(* LCD control and scroll registers are written, the GPU stands on a drawn *)
(* scanline, and render_scanline runs: called directly, or from the        *)
(* breakpoint of execute() with SP = 0xcff7 and a NOP at PC.               *)

\* VRAM contents: tile data of tiles 0, 1 and 2 (whose first bytes the
\* truncated map offset addresses), background map 0 and background map 1
VramWrites ==
    << <<32768, 60>>, <<32769, 66>>, <<32770, 200>>, <<32773, 127>>,
       <<32784, 255>>, <<32800, 130>>,
       <<38912, 1>>, <<38913, 128>>, <<38944, 200>>, <<39935, 127>>,
       <<39936, 2>>, <<39937, 255>>, <<40959, 100>> >>

VramImages == {<< >>, VramWrites}

\* LCDC with bg_map / bg_tile = 0/0, 0/1, 1/0, 1/1
LcdControls == {129, 145, 137, 153}

Scanlines == {0, 7, 8, 100, 143, 144, 153}
ScrollXs == {0, 3, 8, 131, 255}
ScrollYs == {0, 5, 120, 200, 255}

\* the tile fetches one call of render_scanline makes before it returns or
\* panics: none when scanline + scroll_y overflows with overflow checks, one
\* when the first pixel falls outside pixel_buffer, 21 otherwise
fetched(g) ==
    LET n == IF overflow_checks /\ g.scanline + g.scroll_y > 255 THEN 0
             ELSE IF g.scanline * 160 >= 23040 THEN 1
             ELSE 21
    IN [k \in 1..n |-> fetch_tile(g, k - 1)]

\* the registers written and the GPU standing on scanline `line`
render_setup(c, lcdc, sy, sx, line) ==
    [c EXCEPT !.memory =
        [write_byte(write_byte(write_byte(@, 65344, lcdc), 65346, sy), 65347, sx)
            EXCEPT !.gpu.scanline = line]]

InitRender ==
    /\ overflow_checks \in BOOLEAN
    /\ \E image \in VramImages :
          cpu = [initialize(CPU_new, NoRom) EXCEPT !.memory = write_all(@, image, 1)]
    /\ last = no_call
    /\ steps = 0

RenderDone(c, args) ==
    /\ cpu' = panic_if([c EXCEPT !.memory.gpu = render_scanline(@).gpu],
                       render_scanline(c.memory.gpu).panic)
    /\ last' = [op |-> "render_scanline", pre |-> c, args |-> args,
                result |-> fetched(c.memory.gpu)]

RenderScanline(lcdc, sy, sx, line) ==
    /\ steps = 0
    /\ RenderDone(render_setup(cpu, lcdc, sy, sx, line), <<lcdc, sy, sx, line>>)
    /\ steps' = 1
    /\ UNCHANGED overflow_checks

AtBreakpoint(lcdc, sy, sx, line) ==
    /\ steps = 0
    /\ OpDone(with_instr([render_setup(cpu, lcdc, sy, sx, line)
                             EXCEPT !.register.SP = 53239], <<0>>),
              <<lcdc, sy, sx, line>>)
    /\ steps' = 1
    /\ UNCHANGED overflow_checks

NextRender ==
    \/ \E lcdc \in LcdControls, sy \in ScrollYs, sx \in ScrollXs, line \in Scanlines :
          RenderScanline(lcdc, sy, sx, line)
    \/ \E lcdc \in LcdControls, sy \in ScrollYs, sx \in ScrollXs, line \in Scanlines :
          AtBreakpoint(lcdc, sy, sx, line)

SpecRender == InitRender /\ [][NextRender]_vars

----------------------------------------------------------------------------
(* SpecLive: main() for ever, `while b { cpu.cpu_cycle(); }` (main.rs:31-33)*)
(* on programs that loop or stop.  CPU::ticks and GPU::prev_ticks grow     *)
(* without bound and only their difference is ever read (gpu.rs:155), so   *)
(* the state keeps both relative to prev_ticks: after each cycle ticks is  *)
(* the interrupt charge not yet passed to the GPU and prev_ticks is 0.     *)
(* `steps` is the number of cycles made, modulo 2.  The loop never ends    *)
(* and makes no other call, hence the weak fairness of the cycle; it is    *)
(* stated on the cycle count, which every cycle changes.                   *)

LiveRoms == {VblankRom, LoopRom, StopRom}

InitLive ==
    /\ overflow_checks \in BOOLEAN
    /\ \E rom \in LiveRoms : cpu = initialize(CPU_new, rom)
    /\ last = no_call
    /\ steps = 0

\* both tick counters of c lowered by c's prev_ticks
rebased(c) ==
    [c EXCEPT !.ticks = @ - c.memory.gpu.prev_ticks, !.memory.gpu.prev_ticks = 0]

LiveDone(c) ==
    /\ cpu' = rebased(c)
    /\ last' = [op |-> "cpu_cycle", pre |-> cpu, args |-> << >>, result |-> FALSE]

CpuCycleLive ==
    /\ ~cpu.panicked
    /\ LiveDone(cpu_cycle(cpu))
    /\ steps' = 1 - steps
    /\ UNCHANGED overflow_checks

NextLive == CpuCycleLive

\* one more iteration of the main loop
cycle_made == ~cpu.panicked /\ steps' = 1 - steps

SpecLive == InitLive /\ [][NextLive]_vars /\ WF_steps(cycle_made)

----------------------------------------------------------------------------
(* SpecLoad: load_rom called on a fresh bus, and again on the bus a load   *)
(* has left                                                                 *)

\* file lengths: empty, one byte, one short of and exactly the header size,
\* 32 KiB, and 32 KiB plus two bytes
LoadLens == {0, 1, 383, 384, 32768, 32770}

\* the ROM-size byte at 0x148: 32 KiB, 64 KiB, and 512 KiB (32 * 16 does not
\* fit a u8)
LoadSizes == {0, 1, 4}

LoadFills == {85, 170}

\* the offsets at which the drawn files hold a nonzero byte
LoadOffsets == {0, 256, 328, 382, 383, 32767, 32768, 32769}

\* the file of the given length with `fill` at the offsets below 0x8000, the
\* size code at 0x148, and 0x3C, 0x42 behind the first 32 KiB
LoadImage(len, size, fill) ==
    LET byte(a) == CASE a = 328 -> size
                     [] a = 32768 -> 60
                     [] a = 32769 -> 66
                     [] OTHER -> fill
    IN [exists |-> TRUE, len |-> len,
        bytes |-> [a \in {o \in LoadOffsets : o < len /\ byte(o) # 0} |-> byte(a)]]

LoadImages ==
    {NoRom} \cup {LoadImage(len, size, fill) :
                     len \in LoadLens, size \in LoadSizes, fill \in LoadFills}

MaxLoads == 2

InitLoad ==
    /\ overflow_checks \in BOOLEAN
    /\ cpu = CPU_new
    /\ last = no_call
    /\ steps = 0

LoadDone(l, image) ==
    /\ cpu' = IF l.panic THEN aborted(cpu) ELSE [cpu EXCEPT !.memory = l.memory]
    /\ last' = [op |-> "load_rom", pre |-> cpu, args |-> <<image>>,
                result |-> l.result]
    /\ steps' = steps + 1
    /\ UNCHANGED overflow_checks

LoadRom(image) ==
    /\ ~cpu.panicked
    /\ LoadDone(load_rom(cpu.memory, image), image)

NextLoad == steps < MaxLoads /\ \E image \in LoadImages : LoadRom(image)

SpecLoad == InitLoad /\ [][NextLoad]_vars

----------------------------------------------------------------------------
(* SpecIrq: the boot state with IME, IE and IF drawn, then one of: a       *)
(* cpu_cycle on any opcode, a bus write, a GPU tick, an interrupt service, *)
(* or two instructions back to back (an instruction whose boundary         *)
(* dispatches an interrupt, then RETI; CALL nn, then RET).                 *)

\* <<IE, IF>>: nothing enabled or requested, one or more sources pending,
\* requests that are not enabled
IrqStates == {<<0, 0>>, <<31, 0>>, <<0, 31>>, <<1, 1>>, <<2, 2>>, <<4, 4>>,
              <<8, 8>>, <<16, 16>>, <<3, 3>>, <<2, 5>>, <<31, 31>>}

\* operand bytes: 0x0F and 0xFF make LDH (n),A address IF and IE
IrqOperands == {0, 15, 255}

DI == 243
EI == 251
RETI == 217
RET == 201

\* NOP; RETI -- LD A,n; RETI -- CALL 0xC100; RET -- CALL 0x1234; RET
\* (the call targets lie outside the stack words under StackTops)
IrqPairs ==
    { << <<0>>, <<RETI>> >>, << <<62, 5>>, <<RETI>> >>,
      << <<205, 0, 193>>, <<RET>> >>, << <<205, 52, 18>>, <<RET>> >> }

InitIrq ==
    /\ overflow_checks \in BOOLEAN
    /\ \E ime \in BOOLEAN, ief \in IrqStates :
          cpu = [initialize(CPU_new, NoRom) EXCEPT !.memory.master = ime,
                                                   !.memory.enable = ief[1],
                                                   !.memory.flags = ief[2]]
    /\ last = no_call
    /\ steps = 0

\* a cpu_cycle; last.result is the state between the GPU tick and the
\* interrupt service
IrqDone(c, args) ==
    /\ cpu' = cpu_cycle(c)
    /\ last' = [op |-> "cpu_cycle", pre |-> c, args |-> args,
                result |-> tick_gpu(charge(execute(c)))]

IrqOpcode(op, n) ==
    /\ steps = 0
    /\ IrqDone(with_instr(cpu, <<op, n, 192>>), <<op, n>>)
    /\ steps' = 1
    /\ UNCHANGED overflow_checks

IrqCbOpcode(op) ==
    /\ steps = 0
    /\ IrqDone(with_instr(cpu, <<203, op>>), <<203, op>>)
    /\ steps' = 1
    /\ UNCHANGED overflow_checks

IrqWrite(address, value) ==
    /\ steps = 0
    /\ cpu' = [cpu EXCEPT !.memory = write_byte(@, address, value)]
    /\ last' = [op |-> "write_byte", pre |-> cpu, args |-> <<address, value>>,
                result |-> FALSE]
    /\ steps' = 1
    /\ UNCHANGED overflow_checks

IrqGpuTick(d) ==
    /\ steps = 0
    /\ cpu' = tick_gpu([cpu EXCEPT !.ticks = @ + d])
    /\ last' = [op |-> "gpu_cycle", pre |-> cpu, args |-> <<d>>, result |-> FALSE]
    /\ steps' = 1
    /\ UNCHANGED overflow_checks

IrqService ==
    /\ steps = 0
    /\ cpu' = unless_panicked(cpu, interrupt_cycle(cpu))
    /\ last' = [op |-> "interrupt_cycle", pre |-> cpu, args |-> << >>, result |-> FALSE]
    /\ steps' = 1
    /\ UNCHANGED overflow_checks

\* the stack top moved to sp and the first instruction at PC
irq_pair_setup(c, sp, first) == with_instr([c EXCEPT !.register.SP = sp], first)

IrqPair(sp, first, second) ==
    /\ steps = 0
    /\ PairDone(irq_pair_setup(cpu, sp, first),
                cpu_cycle(irq_pair_setup(cpu, sp, first)), second)
    /\ steps' = 1
    /\ UNCHANGED overflow_checks

NextIrq ==
    \/ \E op \in Opcodes, n \in IrqOperands : IrqOpcode(op, n)
    \/ \E op \in Byte : IrqCbOpcode(op)
    \/ \E address \in MemAddrs, value \in MemValues : IrqWrite(address, value)
    \/ \E d \in TickDeltas : IrqGpuTick(d)
    \/ IrqService
    \/ \E sp \in StackTops, p \in IrqPairs : IrqPair(sp, p[1], p[2])

SpecIrq == InitIrq /\ [][NextIrq]_vars

----------------------------------------------------------------------------
(* Properties                                                              *)

pre == last.pre


carry_in == IF flag_get(pre.register, C) THEN 1 ELSE 0

\* C1: the low nibble of F is zero in every reachable state, also after
\* POP AF and after an interrupt dispatch.
C1_FLowNibbleZero == BitAnd(cpu.register.F, 15) = 0

\* POP AF has just popped a word whose low nibble is not zero
C1_Witness ==
    /\ last.op = "cpu_cycle"
    /\ last.args = <<241>>
    /\ ~cpu.panicked
    /\ BitAnd(read_short(pre.memory, pre.register.SP), 15) # 0
    /\ cpu.register.F = BitAnd(read_short(pre.memory, pre.register.SP), 240)

\* the pixel of a tile as the two bit planes in VRAM encode it
vram_pixel(g, tile, x, y) ==
    BitOf(AGet(g.vram, tile * 16 + y * 2), 7 - x)
    + 2 * BitOf(AGet(g.vram, tile * 16 + y * 2 + 1), 7 - x)

\* tiles of the addresses the bus driver writes in 0x8000..0x97FF
WrittenTiles == {BitAnd(Shr(a - 32768, 4), 511) : a \in {b \in MemAddrs : b >= 32768 /\ b <= 38911}}

\* C2: after any writes in 0x8000..0x97FF (both bounds included) the tile
\* cache holds, for every pixel, the value the two VRAM bit planes encode.
C2_TileCacheFollowsVram ==
    \A tile \in WrittenTiles, x \in 0..7, y \in 0..7 :
        tile_pixel(cpu.memory.gpu, tile, x, y) = vram_pixel(cpu.memory.gpu, tile, x, y)

\* the GPU step has just moved the scanline counter from 143 to 144
enters_144 == pre.memory.gpu.scanline = 143 /\ cpu.memory.gpu.scanline = 144

\* C3: gpu_cycle reports VBLANK exactly at the steps that move the scanline
\* counter from 143 to 144, and bit 0 of IF is set at such a step.
C3_VblankAt144 ==
    last.op = "gpu_cycle" =>
        /\ last.result = enters_144
        /\ enters_144 => BitAnd(cpu.memory.flags, VBLANK) # 0

\* ticks from the start of a line to the start of a mode on that line
mode_offset(mode) == CASE mode = 2 -> 0 [] mode = 3 -> 80 [] mode = 0 -> 252 [] OTHER -> 0

\* C4: the scanline counter stays in 0..153, a step leaves it or moves it
\* to the next value with 153 followed by 0, and the ticks consumed by
\* completed phases place the GPU at scanline * 456 + mode offset within a
\* cycle of 70224 ticks (the GPU is constructed 252 ticks into line 0).
C4_ScanlineCycle ==
    LET g == cpu.memory.gpu
    IN /\ g.scanline \in 0..153
       /\ last.op = "gpu_cycle" =>
             g.scanline \in {pre.memory.gpu.scanline, (pre.memory.gpu.scanline + 1) % 154}
       /\ ((g.prev_ticks - g.gpu_ticks + 252) % 70224)
             = g.scanline * 456 + mode_offset(g.gpu_mode)

\* the counter has just wrapped from 153 to 0 for the second time
C4_Witness ==
    /\ last.op = "gpu_cycle"
    /\ pre.memory.gpu.scanline = 153
    /\ cpu.memory.gpu.scanline = 0
    /\ cpu.memory.gpu.prev_ticks - cpu.memory.gpu.gpu_ticks = 69972 + 70224

IntBits == {VBLANK, LCDCSTATUS, TIMEROVERFLOW, SERIALTC, KEYPAD}

\* the interrupt sources of x, as a set of bits
sources(x) == {b \in IntBits : (x \div b) % 2 = 1}

lowest(bs) == CHOOSE b \in bs : \A o \in bs : b <= o

vector_of(b) ==
    CASE b = VBLANK -> 64 [] b = LCDCSTATUS -> 72 [] b = TIMEROVERFLOW -> 80
      [] b = SERIALTC -> 88 [] OTHER -> 96

\* the sources both enabled and requested before the last step
pending == sources(pre.memory.enable) \cap sources(pre.memory.flags)

\* C6: write_byte(0xFFFF, v) makes IE = v and a read of 0xFFFF return v;
\* write_byte(0xFF0F, v) makes IF = v and a read of 0xFF0F return v.
C6_IEandIFWritable ==
    last.op = "write_byte" =>
        /\ last.args[1] = 65535 =>
              /\ cpu.memory.enable = last.args[2]
              /\ read_byte(cpu.memory, 65535) = last.args[2]
        /\ last.args[1] = 65295 =>
              /\ cpu.memory.flags = last.args[2]
              /\ read_byte(cpu.memory, 65295) = last.args[2]

\* C7: in a program that enabled VBLANK through 0xFFFF and executed EI, the
\* cycle whose GPU step enters VBLANK also dispatches it: on return PC is
\* 0x40 and bit 0 of IF is clear, before the next instruction runs.
C7_VblankSameCycle ==
    ( /\ last.op = "cpu_cycle"
      /\ pre.memory.cart = VblankRom.bytes
      /\ pre.memory.master
      /\ pre.memory.gpu.gpu_mode # 1
      /\ cpu.memory.gpu.gpu_mode = 1 ) =>
        /\ cpu.register.PC = 64
        /\ (cpu.memory.flags % 2) = 0

\* C8: once HALT has executed, a cycle during which (IE & IF) stays zero
\* fetches and executes nothing: the registers, PC included, are unchanged.
C8_HaltWaits ==
    ( /\ last.op = "cpu_cycle"
      /\ pre.halted
      /\ BitAnd(pre.memory.enable, pre.memory.flags) = 0
      /\ BitAnd(cpu.memory.enable, cpu.memory.flags) = 0 ) =>
        cpu.register = pre.register

\* C9: ADC A,B / ADC A,(HL) / ADC A,n leave A = (a + b + cin) % 256,
\* C = (a + b + cin > 255), H = ((a % 16) + (b % 16) + cin > 15),
\* Z = (result = 0) and N = 0.
C9_Adc ==
    (last.op = "cpu_cycle" /\ last.args[1] \in {136, 142, 206}) =>
        LET a == pre.register.A
            b == last.args[2]
            sum == a + b + carry_in
            r == cpu.register
        IN /\ r.A = (sum % 256)
           /\ flag_get(r, C) = (sum > 255)
           /\ flag_get(r, H) = ((a % 16) + (b % 16) + carry_in > 15)
           /\ flag_get(r, Z) = ((sum % 256) = 0)
           /\ ~flag_get(r, N)

\* C10: SUB B / SUB (HL) / SUB n leave A = (a - b) mod 256, Z = (a = b),
\* N = 1, H = ((a % 16) < (b % 16)) and C = (a < b); CP in the same forms
\* sets the same flags and leaves A unchanged.
C10_SubAndCp ==
    (last.op = "cpu_cycle" /\ last.args[1] \in {144, 150, 214, 184, 190, 254}) =>
        LET a == pre.register.A
            b == last.args[2]
            r == cpu.register
        IN /\ ~cpu.panicked
           /\ r.A = IF last.args[1] \in {144, 150, 214} THEN ((a - b + 256) % 256) ELSE a
           /\ flag_get(r, Z) = (a = b)
           /\ flag_get(r, N)
           /\ flag_get(r, H) = ((a % 16) < (b % 16))
           /\ flag_get(r, C) = (a < b)

\* SUB n has just borrowed from bit 4 without borrowing from bit 8
C10_Witness ==
    /\ last.op = "cpu_cycle"
    /\ last.args[1] = 214
    /\ pre.register.A > last.args[2]
    /\ (pre.register.A % 16) < (last.args[2] % 16)
    /\ cpu.register.A = pre.register.A - last.args[2]
    /\ flag_get(cpu.register, H)
    /\ ~flag_get(cpu.register, C)

\* C11: ADD A,B / ADD A,(HL) / ADD A,n leave A = (a + b) % 256 with
\* Z = (result = 0), N = 0, H = ((a % 16) + (b % 16) > 15) and
\* C = (a + b > 255), the carry of the 9-bit sum.
C11_Add ==
    (last.op = "cpu_cycle" /\ last.args[1] \in {128, 134, 198}) =>
        LET a == pre.register.A
            b == last.args[2]
            r == cpu.register
        IN /\ r.A = ((a + b) % 256)
           /\ flag_get(r, Z) = (((a + b) % 256) = 0)
           /\ ~flag_get(r, N)
           /\ flag_get(r, H) = ((a % 16) + (b % 16) > 15)
           /\ flag_get(r, C) = (a + b > 255)

\* C12: SBC A,B / SBC A,(HL) / SBC A,n never trap and leave
\* A = (a - b - cin) mod 256 with N = 1, Z = (result = 0),
\* C = (a < b + cin) and H = ((a % 16) < (b % 16) + cin).
C12_Sbc ==
    (last.op = "cpu_cycle" /\ last.args[1] \in {152, 158, 222}) =>
        LET a == pre.register.A
            b == last.args[2]
            res == (a - b - carry_in + 512) % 256
            r == cpu.register
        IN /\ ~cpu.panicked
           /\ r.A = res
           /\ flag_get(r, N)
           /\ flag_get(r, Z) = (res = 0)
           /\ flag_get(r, C) = (a < b + carry_in)
           /\ flag_get(r, H) = ((a % 16) < (b % 16) + carry_in)

\* the state between the two instructions of a pair
mid == last.result

\* the pair register a PUSH/POP opcode names
pair_of(r, op) ==
    CASE op \in {197, 193} -> get_bc(r) [] op \in {213, 209} -> get_de(r)
      [] op \in {229, 225} -> get_hl(r) [] OTHER -> r.A * 256 + r.F

\* C13: PUSH rr immediately followed by POP rr, with SP in writable RAM:
\* PUSH first lowers SP by 2 and then stores rr there, POP reads and then
\* raises SP by 2; rr and SP end equal to their values before the PUSH
\* (the low nibble of F being zero for AF), and nothing traps.
C13_PushPopRoundTrip ==
    (last.op = "pair" /\ last.args[1] \in {193, 209, 225, 241}) =>
        /\ ~cpu.panicked
        /\ mid.register.SP = pre.register.SP - 2
        /\ read_short(mid.memory, mid.register.SP) = pair_of(pre.register, last.args[1])
        /\ cpu.register.SP = pre.register.SP
        /\ pair_of(cpu.register, last.args[1]) = pair_of(pre.register, last.args[1])
        /\ (cpu.register.F % 16) = 0

\* PUSH AF; POP AF with all four flags set and the stack in work RAM
C13_Witness ==
    /\ last.op = "pair"
    /\ last.args = <<241>>
    /\ pre.register.SP = 53248
    /\ pre.register.A = 18
    /\ pre.register.F = 240
    /\ mid.register.SP = 53246
    /\ read_byte(mid.memory, 53247) = 18
    /\ cpu.register.A = 18
    /\ cpu.register.F = 240
    /\ cpu.register.SP = 53248

\* the register a CB opcode of the pairs operates on
cb_reg(r, op) == IF (op % 8) = 7 THEN r.A ELSE r.B

\* C15: SWAP applied twice returns the byte, the first SWAP exchanging
\* its nibbles, and each SWAP leaves C = 0.
C15_SwapTwice ==
    (last.op = "pair" /\ last.args \in {<<203, 48>>, <<203, 55>>}) =>
        LET v == cb_reg(pre.register, last.args[2])
        IN /\ cb_reg(mid.register, last.args[2]) = (v % 16) * 16 + (v \div 16)
           /\ cb_reg(cpu.register, last.args[2]) = v
           /\ ~flag_get(mid.register, C)
           /\ ~flag_get(cpu.register, C)

\* SWAP B twice on 0x3C with the carry set beforehand
C15_Witness ==
    /\ last.op = "pair"
    /\ last.args = <<203, 48>>
    /\ pre.register.B = 60
    /\ flag_get(pre.register, C)
    /\ mid.register.B = 195
    /\ cpu.register.B = 60
    /\ ~flag_get(cpu.register, C)

\* C16: RLC followed by RRC on the same register reproduces the byte, and
\* the final C equals the initial carry exactly when bit 7 of the byte
\* equals the initial carry.
C16_RlcRrc ==
    (last.op = "pair" /\ last.args \in {<<203, 8>>, <<203, 15>>}) =>
        LET v == cb_reg(pre.register, last.args[2])
            c0 == flag_get(pre.register, C)
        IN /\ cb_reg(cpu.register, last.args[2]) = v
           /\ (flag_get(cpu.register, C) = c0) <=> ((v >= 128) = c0)

\* RLC B; RRC B on 0x81 with the carry clear beforehand: C ends set
C16_Witness ==
    /\ last.op = "pair"
    /\ last.args = <<203, 8>>
    /\ pre.register.B = 129
    /\ ~flag_get(pre.register, C)
    /\ mid.register.B = 3
    /\ cpu.register.B = 129
    /\ flag_get(cpu.register, C)

\* C14: LD dst,val for dst in {B, C, D, E, H, L, A} leaves dst = val and
\* the four flags of F as they were.
C14_LdImmediate ==
    (last.op = "cpu_cycle" /\ last.args[1] \in LdImmOps) =>
        /\ ~cpu.panicked
        /\ reg8(cpu, last.args[1] \div 8) = last.args[2]
        /\ cpu.register.F = pre.register.F

\* LD H,0xA5 with N and C set beforehand
C14_Witness ==
    /\ last.op = "cpu_cycle"
    /\ last.args = <<38, 165>>
    /\ pre.register.F = 80
    /\ pre.register.H # 165
    /\ cpu.register.H = 165
    /\ cpu.register.F = 80

UndefinedOps == {211, 219, 221, 227, 228, 235, 236, 237, 244, 252, 253}

\* C17: every primary opcode other than the eleven undefined ones, and
\* every opcode after the 0xCB prefix, executes without a fatal trap.
C17_DefinedOpcodesRun ==
    (last.op = "cpu_cycle" /\ last.args[1] \notin UndefinedOps) => ~cpu.panicked

\* C18: after any writes, read_byte(0xE000 + k) equals read_byte(0xC000 + k)
\* for the offsets k the bus driver writes at (0 and 0x1DFF), through
\* either address.
C18_EchoMirrorsWorkRam ==
    \A k \in {0, 7679} :
        read_byte(cpu.memory, 57344 + k) = read_byte(cpu.memory, 49152 + k)

\* C19: after any writes, addresses 0xFEA0 and 0xFEFF of the unusable
\* region read 0, and a write to them changes nothing.
C19_UnusableReadsZero ==
    /\ \A a \in {65184, 65279} : read_byte(cpu.memory, a) = 0
    /\ (last.op = "write_byte" /\ last.args[1] \in {65184, 65279}) =>
          cpu.memory = pre.memory

\* row y of a cached tile, leftmost pixel first
tile_row(g, tile, y) == [x \in 1..8 |-> tile_pixel(g, tile, x - 1, y)]

\* write_byte(0x8000, 0x3C) then write_byte(0x8001, 0x42) on zero VRAM
wrote_3C_42 ==
    /\ last.op = "write_byte"
    /\ last.args = <<32769, 66>>
    /\ DOMAIN pre.memory.gpu.vram = {0}
    /\ pre.memory.gpu.vram[0] = 60

\* C20 as stated: after the two writes row 0 of tile 0 is [0,2,3,3,3,3,2,0].
C20_RowAsStated ==
    wrote_3C_42 => tile_row(cpu.memory.gpu, 0, 0) = <<0, 2, 3, 3, 3, 3, 2, 0>>

\* C20: after the two writes row 0 of tile 0 is [0,2,1,1,1,1,2,0]: the low
\* bit of a pixel comes from the even byte 0x3C, the high bit from the odd
\* byte 0x42, bit 7 being the leftmost pixel.
C20_RowOfTile0 ==
    wrote_3C_42 => tile_row(cpu.memory.gpu, 0, 0) = <<0, 2, 1, 1, 1, 1, 2, 0>>

\* the two writes have been made and both bit planes are in VRAM
C20_Witness ==
    /\ wrote_3C_42
    /\ cpu.memory.gpu.vram[0] = 60
    /\ cpu.memory.gpu.vram[1] = 66
    /\ tile_pixel(cpu.memory.gpu, 0, 1, 0) = 2
    /\ tile_pixel(cpu.memory.gpu, 0, 2, 0) = 1

\* value of a packed BCD byte, and the packed BCD byte of a value below 100
bcd_value(x) == 10 * (x \div 16) + (x % 16)
bcd(n) == 16 * (n \div 10) + (n % 10)

\* the operand byte that follows the opcode executed first
imm == read_byte(pre.memory, Wrap16(pre.register.PC + 1))

\* C21: for packed BCD bytes a and b, ADD A,b then DAA leaves A the packed
\* BCD encoding of (dec(a) + dec(b)) mod 100 and C = (dec(a) + dec(b) >= 100);
\* 0x45 + 0x38 gives A = 0x83 with Z = 0 and C = 0.
C21_BcdAddition ==
    (last.op = "pair" /\ last.args = <<39>>) =>
        LET sum == bcd_value(pre.register.A) + bcd_value(imm)
        IN /\ ~cpu.panicked
           /\ cpu.register.A = bcd(sum % 100)
           /\ flag_get(cpu.register, C) = (sum >= 100)
           /\ (pre.register.A = 69 /\ imm = 56) =>
                 (cpu.register.A = 131 /\ ~flag_get(cpu.register, Z))

\* C22: a CPU constructed by CPU::new(), before and after initialize() without
\* a ROM, has A = 0x01, F = 0xB0, BC = 0x0013, DE = 0x00D8, HL = 0x014D,
\* PC = 0x0100 and SP = 0xFFFE.
C22_PostBootRegisters ==
    last.op \in {"none", "initialize"} =>
        /\ cpu.register.A = 1
        /\ cpu.register.F = 176
        /\ get_bc(cpu.register) = 19
        /\ get_de(cpu.register) = 216
        /\ get_hl(cpu.register) = 333
        /\ cpu.register.PC = 256
        /\ cpu.register.SP = 65534

\* the CPU was constructed and initialize() found no ROM to load
C22_Witness ==
    /\ last.op = "initialize"
    /\ pre.register = Registers_new
    /\ pre.memory = Memory_new
    /\ cpu.memory.cart = EmptyArray
    /\ cpu.ticks = 0
    /\ get_af(cpu.register) = 432

\* the opcode of the instruction stepped last
stepped(ops) == last.op = "cpu_cycle" /\ Len(last.args) > 0 /\ last.args[1] \in ops

\* C23: after DAA, for every A and every N, H, C before it, Z is set iff the
\* adjusted value stored in A is 0, and H is 0.
C23_DaaZeroFlag ==
    stepped({39}) =>
        /\ ~cpu.panicked
        /\ flag_get(cpu.register, Z) = (cpu.register.A = 0)
        /\ ~flag_get(cpu.register, H)

\* C24: RLCA, RRCA, RLA and RRA leave Z = 0, N = 0 and H = 0 for every A and
\* every incoming carry, also when the rotated result is 0.
C24_AccRotatesClearZ ==
    stepped({7, 15, 23, 31}) =>
        /\ ~cpu.panicked
        /\ ~flag_get(cpu.register, Z)
        /\ ~flag_get(cpu.register, N)
        /\ ~flag_get(cpu.register, H)

\* C25: RLA leaves A = ((a << 1) | c) mod 256 and C = bit 7 of a; RRA leaves
\* A = (a >> 1) | (c << 7) and C = bit 0 of a, c being the carry before.
C25_RotateThroughCarry ==
    /\ stepped({23}) =>
          /\ cpu.register.A = BitOr(Shl8(pre.register.A, 1), carry_in)
          /\ flag_get(cpu.register, C) = (pre.register.A >= 128)
    /\ stepped({31}) =>
          /\ cpu.register.A = BitOr(Shr(pre.register.A, 1), 128 * carry_in)
          /\ flag_get(cpu.register, C) = (pre.register.A % 2 = 1)

\* C26: ADD HL,rr leaves HL = (hl + rr) mod 65536, N = 0, H = carry out of
\* bit 11, C = carry out of bit 15 and Z unchanged.
C26_AddHl ==
    stepped(AddHlOps) =>
        LET hl == last.args[2]
            other == last.args[3]
        IN /\ ~cpu.panicked
           /\ get_hl(cpu.register) = (hl + other) % 65536
           /\ ~flag_get(cpu.register, N)
           /\ flag_get(cpu.register, H) = ((hl % 4096) + (other % 4096) > 4095)
           /\ flag_get(cpu.register, C) = (hl + other > 65535)
           /\ flag_get(cpu.register, Z) = flag_get(pre.register, Z)

\* C27: LDHL SP,e8 leaves HL = (SP + signext(e)) mod 65536, SP unchanged,
\* Z = 0, N = 0, H = ((SP & 0xF) + (e & 0xF) > 0xF) and
\* C = ((SP & 0xFF) + e > 0xFF).
C27_LdhlSp ==
    stepped({248}) =>
        LET sp == pre.register.SP
            e == last.args[2]
        IN /\ ~cpu.panicked
           /\ get_hl(cpu.register) = (sp + 65536 + AsI8(e)) % 65536
           /\ cpu.register.SP = sp
           /\ ~flag_get(cpu.register, Z)
           /\ ~flag_get(cpu.register, N)
           /\ flag_get(cpu.register, H) = ((sp % 16) + (e % 16) > 15)
           /\ flag_get(cpu.register, C) = ((sp % 256) + e > 255)

\* the GPU on which render_scanline was called last
rendered == pre.memory.gpu

\* C28: every tile index render_scanline fetches comes from
\* VRAM[map_base + map_row * 32 + col], map_base being 0x1C00 if bg_map else
\* 0x1800, map_row = ((scanline + scroll_y) & 0xFF) >> 3, and col starting
\* at scroll_x >> 3 and advancing modulo 32: an address inside the selected
\* 32 x 32 map.
C28_FetchFromTileMap ==
    last.op = "render_scanline" =>
        LET map_base == IF rendered.bg_map THEN 7168 ELSE 6144
            map_row == Shr((rendered.scanline + rendered.scroll_y) % 256, 3)
        IN \A k \in DOMAIN last.result :
              /\ last.result[k].address
                    = map_base + map_row * 32 + ((Shr(rendered.scroll_x, 3) + k - 1) % 32)
              /\ last.result[k].address \in map_base .. map_base + 1023

\* C29: 256 is added to a fetched tile index exactly when bg_tile is false and
\* the index is below 128, with bg_tile true the index is used unchanged, and
\* the tile number is within 0..383.
C29_SignedTileBank ==
    last.op = "render_scanline" =>
        \A k \in DOMAIN last.result :
           /\ last.result[k].tile
                 = last.result[k].index
                   + (IF ~rendered.bg_tile /\ last.result[k].index < 128 THEN 256 ELSE 0)
           /\ last.result[k].tile \in 0..383

\* the edges of the mode machine
ModeEdges == {<<2, 3>>, <<3, 0>>, <<0, 2>>, <<0, 1>>, <<1, 2>>}

\* C30: the GPU mode is one of 0..3; a call of gpu_cycle changes it only
\* along OAM_SCAN -> PIXEL_XFER -> HBLANK -> {OAM_SCAN, VBLANK} and
\* VBLANK -> OAM_SCAN; a mode is left, or the scanline counter changed, only
\* when the accumulated ticks have reached the mode's duration, and then
\* exactly that duration is subtracted; the scanline counter changes only
\* when an HBLANK or VBLANK period completes.
C30_ModeMachine ==
    LET g == cpu.memory.gpu
        g0 == pre.memory.gpu
        acc == g0.gpu_ticks + (g.prev_ticks - g0.prev_ticks)
        completed == g.gpu_mode # g0.gpu_mode \/ g.scanline # g0.scanline
    IN /\ g.gpu_mode \in 0..3
       /\ last.op = "gpu_cycle" =>
             /\ g.gpu_mode # g0.gpu_mode => <<g0.gpu_mode, g.gpu_mode>> \in ModeEdges
             /\ completed => /\ acc >= duration(g0.gpu_mode)
                             /\ g.gpu_ticks = acc - duration(g0.gpu_mode)
             /\ ~completed => g.gpu_ticks = acc
             /\ g.scanline # g0.scanline => g0.gpu_mode \in {0, 1}

\* a VBLANK has just ended: mode 1 left for mode 2 with 456 ticks subtracted
\* and the scanline counter reset
C30_Witness ==
    /\ last.op = "gpu_cycle"
    /\ pre.memory.gpu.gpu_mode = 1
    /\ cpu.memory.gpu.gpu_mode = 2
    /\ pre.memory.gpu.scanline # cpu.memory.gpu.scanline
    /\ cpu.memory.gpu.gpu_ticks
          = pre.memory.gpu.gpu_ticks + last.args[1] - 456
    /\ cpu.memory.gpu.scanline = 0

\* C31: the GPU is in VBLANK mode (1) exactly when the scanline counter is
\* in 144..153; on the lines 0..143 it is in OAM_SCAN, PIXEL_XFER or HBLANK.
C31_VblankLines ==
    (cpu.memory.gpu.gpu_mode = 1) <=> (cpu.memory.gpu.scanline \in 144..153)

\* the sources the program enabled through 0xFFFF that are requested in IF
\* when the interrupt service of the last cycle runs
requested == sources(last.args[1]) \cap sources(mid.memory.flags)

quiet(c) == ~c.memory.master \/ BitAnd(c.memory.enable, c.memory.flags) = 0

\* C33: IME changes only by DI and interrupt dispatch (cleared) and by EI and
\* RETI (set): in a cpu_cycle the instruction and the GPU tick leave IME as it
\* was unless the opcode is DI, EI or RETI; a bus write and a GPU tick leave
\* it unchanged; and an interrupt service with IME clear or (IE & IF) = 0
\* changes nothing (PC, SP, IF and memory included), while a dispatch
\* clears IME.
C33_ImeEvents ==
    /\ (last.op = "cpu_cycle" /\ ~cpu.panicked) =>
          /\ last.args[1] = DI => ~mid.memory.master
          /\ last.args[1] \in {EI, RETI} => mid.memory.master
          /\ last.args[1] \notin {DI, EI, RETI} =>
                mid.memory.master = pre.memory.master
          /\ quiet(mid) => cpu = mid
          /\ ~quiet(mid) => ~cpu.memory.master
    /\ last.op \in {"write_byte", "gpu_cycle"} =>
          cpu.memory.master = pre.memory.master
    /\ last.op = "interrupt_cycle" =>
          /\ quiet(pre) => cpu = pre
          /\ ~quiet(pre) => ~cpu.memory.master

\* EI has set IME with an enabled request pending, and the interrupt service
\* of the same cycle has dispatched it and cleared IME again
C33_Witness ==
    /\ last.op = "cpu_cycle"
    /\ last.args[1] = EI
    /\ ~pre.memory.master
    /\ mid.memory.master
    /\ ~quiet(mid)
    /\ ~cpu.memory.master
    /\ cpu.register.SP = pre.register.SP - 2

\* the address of the instruction after the one at pre's PC (NOP, LD A,n or
\* CALL nn)
next_address ==
    LET op == read_byte(pre.memory, pre.register.PC)
    IN pre.register.PC + (IF op = 0 THEN 1 ELSE IF op = 62 THEN 2 ELSE 3)

\* C34: when the boundary after an instruction dispatches one interrupt and
\* the handler executes RETI, PC is the address of the next instruction, SP
\* is what it was before the dispatch and IME is set; CALL nn followed by RET
\* resumes after the CALL with SP restored.
C34_DispatchRetiRoundTrip ==
    last.op = "pair" =>
        /\ (last.args = <<RETI>> /\ pre.memory.master /\ Cardinality(pending) = 1) =>
              /\ mid.register.PC = vector_of(lowest(pending))
              /\ mid.register.SP = Wrap16(pre.register.SP + 65534)
              /\ read_short(mid.memory, mid.register.SP) = next_address
              /\ ~mid.memory.master
              /\ ~cpu.panicked
              /\ cpu.register.PC = next_address
              /\ cpu.register.SP = pre.register.SP
              /\ cpu.memory.master
        /\ (last.args = <<RET>> /\ quiet(pre)) =>
              /\ mid.register.PC = read_short(pre.memory, pre.register.PC + 1)
              /\ mid.register.SP = Wrap16(pre.register.SP + 65534)
              /\ ~cpu.panicked
              /\ cpu.register.PC = next_address
              /\ cpu.register.SP = pre.register.SP
              /\ cpu.memory.master = pre.memory.master

\* the timer interrupt was dispatched after LD A,n with the stack in work
\* RAM, and RETI has returned behind the LD
C34_Witness ==
    /\ last.op = "pair"
    /\ last.args = <<RETI>>
    /\ pre.memory.master
    /\ pending = {TIMEROVERFLOW}
    /\ pre.register.SP = 53248
    /\ mid.register.PC = 80
    /\ mid.register.SP = 53246
    /\ cpu.register.PC = pre.register.PC + 2
    /\ cpu.register.SP = 53248
    /\ cpu.memory.master

\* C35: after write_byte(0xFF46, val), for every i in 0..159 a read of
\* 0xFE00 + i returns what a read of (val << 8) + i returned before the
\* write, and nothing of the bus outside the OAM bytes 0..159 has changed.
C35_OamDmaExact ==
    (last.op = "write_byte" /\ last.args[1] = 65350) =>
        /\ \A i \in 0..159 :
              read_byte(cpu.memory, 65024 + i)
                 = read_byte(pre.memory, last.args[2] * 256 + i)
        /\ \A i \in 160..255 :
              AGet(cpu.memory.gpu.oam, i) = AGet(pre.memory.gpu.oam, i)
        /\ [cpu.memory EXCEPT !.gpu.oam = pre.memory.gpu.oam] = pre.memory

\* a byte written to work RAM at 0xC000 has been transferred to the first
\* OAM byte, which was zero, and is still readable at its source
C35_Witness ==
    /\ last.op = "write_byte"
    /\ last.args = <<65350, 192>>
    /\ read_byte(pre.memory, 49152) = 60
    /\ read_byte(pre.memory, 65024) = 0
    /\ read_byte(cpu.memory, 65024) = 60
    /\ read_byte(cpu.memory, 49152) = 60

\* C36: loading a file shorter than 0x180 bytes returns an error
\* (LoadError::RomSize) and leaves the bus as it was.
C36_ShortImageRejected ==
    ( /\ last.op = "load_rom"
      /\ last.args[1].exists
      /\ last.args[1].len < 384 ) =>
        /\ last.result = "RomSize"
        /\ cpu = pre

\* a 383-byte file with nonzero bytes was rejected on a bus that holds an
\* earlier image, which is still there
C36_Witness ==
    /\ last.op = "load_rom"
    /\ last.args[1] = LoadImage(383, 0, 170)
    /\ last.result = "RomSize"
    /\ read_byte(pre.memory, 0) = 85
    /\ read_byte(cpu.memory, 0) = 85
    /\ read_byte(cpu.memory, 382) = 85

\* C39: a load_rom that returns Ok has changed the cartridge ROM region
\* only: the bytes of the file below min(length, 0x8000) read back from
\* their offsets, and VRAM, the tile cache, the RAMs, OAM, the I/O
\* registers, IF and IE are as before.
C39_LoadTouchesRomOnly ==
    (last.op = "load_rom" /\ last.result = "Ok") =>
        /\ \A i \in LoadOffsets :
              (i < last.args[1].len /\ i < 32768) =>
                  read_byte(cpu.memory, i) = AGet(last.args[1].bytes, i)
        /\ [cpu.memory EXCEPT !.cart = pre.memory.cart] = pre.memory

\* C37: STOP is absorbing: the cycle that executes STOP sets `stopped`, and
\* every cpu_cycle made with `stopped` set returns at once, leaving the
\* registers, the tick counter, the bus, and with it the GPU mode and
\* scanline, exactly as they were.
C37_StopAbsorbing ==
    last.op = "cpu_cycle" =>
        /\ ( /\ ~pre.stopped
              /\ read_byte(pre.memory, pre.register.PC) = 16
              /\ ~cpu.panicked ) => cpu.stopped
        /\ pre.stopped => cpu = pre

\* a cycle was made after the program's STOP, with IME set by its EI and
\* the VBLANK bit of IF set, and nothing has moved
C37_Witness ==
    /\ last.op = "cpu_cycle"
    /\ pre.stopped
    /\ pre.memory.cart = StopRom.bytes
    /\ pre.memory.master
    /\ pre.memory.flags = 1
    /\ pre.register.PC = 264
    /\ cpu.register.PC = 264
    /\ cpu.ticks = pre.ticks
    /\ cpu.memory.gpu = pre.memory.gpu

\* C38: no tick is lost or counted twice: after every call of gpu_cycle the
\* cumulative tick count passed in equals the durations of all the mode
\* periods completed so far plus the accumulator gpu_ticks, also while the
\* GPU lags behind with more than one period's ticks accumulated.
C38_TicksConserved ==
    LET g == cpu.memory.gpu
    IN /\ g.prev_ticks = steps + g.gpu_ticks
       /\ last.op = "gpu_cycle" => g.prev_ticks = cpu.ticks

\* in the second frame an HBLANK period has just completed with the
\* accumulator still holding more than the whole OAM_SCAN that follows
C38_Witness ==
    /\ last.op = "gpu_cycle"
    /\ steps > 70224
    /\ pre.memory.gpu.gpu_mode = 0
    /\ cpu.memory.gpu.gpu_mode = 2
    /\ cpu.memory.gpu.gpu_ticks > 80
    /\ cpu.ticks = steps + cpu.memory.gpu.gpu_ticks

\* the GPU is at the start of a frame
frame_start == cpu.memory.gpu.scanline = 0 /\ cpu.memory.gpu.gpu_mode = 2

\* C40: frames keep completing: in every run of the main loop the GPU is at
\* scanline 0 in OAM_SCAN again and again, unless the CPU stops stepping
\* (STOP has executed, or the emulator has aborted).
C40_FramesKeepCompleting ==
    ([]<>frame_start) \/ <>(cpu.stopped \/ cpu.panicked)

\* the push/pop loop is running and the cycle just made has ended line 153
\* of VBLANK and started a new frame
C40_Witness ==
    /\ last.op = "cpu_cycle"
    /\ pre.memory.cart = LoopRom.bytes
    /\ ~cpu.stopped
    /\ ~cpu.panicked
    /\ pre.memory.gpu.gpu_mode = 1
    /\ pre.memory.gpu.scanline = 153
    /\ frame_start

====
